---- MODULE Spec2Model ----
(***************************************************************************)
(* Verification model of the assembly quality-control templates:           *)
(*   assembly_report.py          (Assembly summary statistics)             *)
(*   integrity_coverage.py       (FastQ encoding guess / coverage)         *)
(*   process_spades.py           (contig filter and size checks)           *)
(*   process_assembly_mapping.py (coverage filter and size checks)         *)
(*                                                                         *)
(* Each template is a batch program of its own.  The variable prog names   *)
(* the program a behaviour runs, pc its position, and one record variable  *)
(* per program holds that program's objects and locals.                    *)
(*                                                                         *)
(* Strings are run-length encoded: a string is a sequence of runs <<c, k>> *)
(* (character c repeated k >= 1 times, adjacent runs of distinct           *)
(* characters).  Floats are exact rationals <<num, den>> with den > 0.     *)
(***************************************************************************)
EXTENDS Integers, Sequences, FiniteSets, TLC

VARIABLES prog, pc, ar, ic, sp, am

vars == <<prog, pc, ar, ic, sp, am>>

(***************************************************************************)
(* Generic helpers                                                         *)
(***************************************************************************)
Max(a, b) == IF a >= b THEN a ELSE b

Min(a, b) == IF a <= b THEN a ELSE b

Abs(a) == IF a >= 0 THEN a ELSE 0 - a

RECURSIVE GCD(_, _)
GCD(a, b) == IF b = 0 THEN a ELSE GCD(b, a % b)

\* A rational in lowest terms (denominator d > 0, numerator n >= 0).
Rat(n, d) == LET g == GCD(n, d) IN <<n \div g, d \div g>>

RatAdd(x, y) == Rat(x[1] * y[2] + y[1] * x[2], x[2] * y[2])

RatLe(x, y) == x[1] * y[2] <= y[1] * x[2]

RatLt(x, y) == x[1] * y[2] < y[1] * x[2]

RECURSIVE SumSeq(_)
SumSeq(s) == IF s = <<>> THEN 0 ELSE Head(s) + SumSeq(Tail(s))

RECURSIVE RatSum(_)
RatSum(s) == IF s = <<>> THEN <<0, 1>> ELSE RatAdd(Head(s), RatSum(Tail(s)))

\* len(s) of a run-length encoded string
RECURSIVE StrLen(_)
StrLen(s) == IF s = <<>> THEN 0 ELSE Head(s)[2] + StrLen(Tail(s))

\* s.count(c) for a single character c
RECURSIVE StrCount(_, _)
StrCount(s, c) ==
    IF s = <<>> THEN 0
    ELSE (IF Head(s)[1] = c THEN Head(s)[2] ELSE 0) + StrCount(Tail(s), c)

\* the string of k copies of c
Rep(c, k) == IF k = 0 THEN <<>> ELSE <<(<<c, k>>)>>

\* s + t
StrCat(s, t) ==
    IF s = <<>> THEN t
    ELSE IF t = <<>> THEN s
    ELSE IF s[Len(s)][1] = t[1][1]
         THEN SubSeq(s, 1, Len(s) - 1)
              \o <<(<<t[1][1], s[Len(s)][2] + t[1][2]>>)>> \o Tail(t)
         ELSE s \o t

\* insert x into the descending list s
RECURSIVE InsertDesc(_, _)
InsertDesc(x, s) ==
    IF s = <<>> THEN <<x>>
    ELSE IF x >= Head(s) THEN <<x>> \o s
    ELSE <<Head(s)>> \o InsertDesc(x, Tail(s))

\* sorted(s, reverse=True)
RECURSIVE SortedReverse(_)
SortedReverse(s) ==
    IF s = <<>> THEN <<>> ELSE InsertDesc(Head(s), SortedReverse(Tail(s)))

\* all sequences over S of length 0..n
SeqsUpTo(S, n) == UNION {[1..k -> S] : k \in 0..n}

(***************************************************************************)
(* Bounds                                                                  *)
(***************************************************************************)
\* most contigs of an assembly handed to assembly_report
MaxArContigs == 3

\* most calls of get_summary_stats on one Assembly object
MaxSummaryCalls == 2

\* the records of the programs a behaviour does not run
IcIdle == [i |-> 0]

\* no failure reason recorded (fails = None)
NoFail == [kind |-> "None", len |-> 0]

Fail(kind, len) == [kind |-> kind, len |-> len]

SpIdle ==
    [assembly_file |-> <<>>, min_contig_len |-> 0, min_kmer_cov |-> 0,
     max_contigs |-> 0, gsize10 |-> 0,
     contigs |-> <<>>, filtered_ids |-> <<>>, report |-> <<>>,
     filters |-> <<>>, comparisons |-> <<>>, tested |-> <<>>, ncalls |-> 0,
     err |-> "none",
     assembly_len |-> 0, warnings |-> <<>>, fails |-> NoFail,
     warn_fh |-> <<>>, output_assembly |-> <<>>, output_report |-> <<>>,
     filtered |-> TRUE, status |-> ""]

NoBam == [kind |-> "none", contig_list |-> <<>>, index |-> FALSE]

AmIdle ==
    [coverage_file |-> <<>>, coverage_bp_file |-> <<>>, assembly_file |-> <<>>,
     coverage_opt |-> [kind |-> "auto", tenths |-> 0], max_contigs |-> 0,
     gsize10 |-> 0,
     coverage_info |-> <<>>, a_size |-> 0, a_cov |-> 0,
     coverage_bp_data |-> <<>>, min_coverage |-> <<0, 1>>,
     checked |-> FALSE, health |-> TRUE, assembly_len |-> 0, ncontigs |-> 0,
     opened |-> FALSE, warn_fh |-> <<>>, warnings |-> <<>>, fails |-> NoFail,
     sparkline |-> 0, json_written |-> FALSE,
     filtered_assembly |-> <<>>, filtered_bam |-> NoBam,
     err |-> "none", status |-> ""]

(***************************************************************************)
(* assembly_report.py: class Assembly                                      *)
(***************************************************************************)
ListVal(s) == [t |-> "list", v |-> s]

\* a float value r, held like a list so that both kinds compare
FloatVal(r) == [t |-> "float", v |-> <<r>>]

\* contig sequences the parsed assembly files are made of
ArSeqPool ==
    { <<>>,
      Rep("G", 1),
      StrCat(Rep("A", 1), Rep("C", 1)),
      StrCat(Rep("g", 1), StrCat(Rep("C", 1), Rep("N", 1))),
      Rep("N", 4),
      StrCat(Rep("A", 2), StrCat(Rep("C", 1), Rep("T", 2))) }

\* self.contigs after _parse_assembly: the headers in file order, each with
\* its sequence
ArAssemblies ==
    { [k \in 1..Len(q) |-> [header |-> k, sequence |-> q[k]]] :
        q \in SeqsUpTo(ArSeqPool, MaxArContigs) }

\* self.summary_info as set by the constructor
SummaryInfoInit ==
    [ncontigs |-> 0, avg_contig_size |-> ListVal(<<>>), n50 |-> 0,
     total_len |-> 0, avg_gc |-> ListVal(<<>>), missing_data |-> 0]

\* the loop over self.contigs of get_summary_stats; sizes is contig_size_list
RECURSIVE SummaryLoop(_, _, _)
SummaryLoop(contigs, si, sizes) ==
    IF contigs = <<>> THEN [si |-> si, sizes |-> sizes, err |-> "none"]
    ELSE LET sequence == Head(contigs).sequence
             contig_len == StrLen(sequence)
             sizes1 == Append(sizes, contig_len)
             si1 == [si EXCEPT !.total_len = @ + contig_len]
         IN IF si1.avg_gc.t # "list"
            THEN [si |-> si1, sizes |-> sizes1, err |-> "AttributeError"]
            ELSE IF contig_len = 0
            THEN [si |-> si1, sizes |-> sizes1, err |-> "ZeroDivisionError"]
            ELSE SummaryLoop(
                    Tail(contigs),
                    [si1 EXCEPT
                       !.avg_gc = ListVal(Append(@.v,
                           Rat(StrCount(sequence, "G") + StrCount(sequence, "C"),
                               contig_len))),
                       !.missing_data = @ + StrCount(sequence, "N")],
                    sizes1)

\* the N50 loop with > in place of >=
RECURSIVE N50LoopStrict(_, _, _, _)
N50LoopStrict(sorted, cum_size, total_len, n50) ==
    IF sorted = <<>> THEN n50
    ELSE IF 2 * (cum_size + Head(sorted)) > total_len THEN Head(sorted)
    ELSE N50LoopStrict(Tail(sorted), cum_size + Head(sorted), total_len, n50)

\* the N50 loop of get_summary_stats over the sizes sorted descending: the
\* value n50 is left with
RECURSIVE N50Loop(_, _, _, _)
N50Loop(sorted, cum_size, total_len, n50) ==
    IF sorted = <<>> THEN n50
    ELSE IF 2 * (cum_size + Head(sorted)) >= total_len THEN Head(sorted)
    ELSE N50Loop(Tail(sorted), cum_size + Head(sorted), total_len, n50)

\* Assembly.get_summary_stats: the summary_info it leaves and the exception
\* it raises, if any
get_summary_stats(contigs, si) ==
    LET lp == SummaryLoop(contigs, [si EXCEPT !.ncontigs = Len(contigs)], <<>>)
    IN IF lp.err # "none" THEN [si |-> lp.si, err |-> lp.err]
       ELSE IF Len(lp.sizes) = 0 THEN [si |-> lp.si, err |-> "ZeroDivisionError"]
       ELSE LET gcs == lp.si.avg_gc.v
                tot == RatSum(gcs)
                si1 == [lp.si EXCEPT
                          !.avg_contig_size =
                              FloatVal(Rat(SumSeq(lp.sizes), Len(lp.sizes))),
                          !.avg_gc = FloatVal(Rat(tot[1], tot[2] * Len(gcs)))]
            IN [si |-> [si1 EXCEPT !.n50 = N50Loop(SortedReverse(lp.sizes), 0,
                                                   si1.total_len, @)],
                err |-> "none"]

\* the line get_summary_stats writes to output_csv
SummaryLine(si) ==
    <<si.ncontigs, si.avg_contig_size, si.n50, si.total_len, si.avg_gc,
      si.missing_data>>

\* what get_gc_sliding and get_coverage_sliding return
Sliding(res, labels, xbars) == [res |-> res, labels |-> labels, xbars |-> xbars]

ArIdle ==
    [contigs |-> <<>>, summary_info |-> SummaryInfoInit, calls |-> 0,
     err |-> "none", csv |-> <<>>,
     assembly_file |-> <<>>, coverage_bp_file |-> <<>>, has_coverage |-> FALSE,
     contig_boundaries |-> <<>>, contig_coverage |-> <<>>,
     sliding_calls |-> 0, window |-> 0,
     gc_sliding |-> Sliding(<<>>, <<>>, <<>>),
     cov_sliding |-> Sliding(<<>>, <<>>, <<>>),
     has_sliding |-> FALSE, sparkline |-> 0, logged |-> "none",
     json |-> [written |-> FALSE, contigs |-> 0, assembled_bp |-> 0,
               size_dist |-> <<>>, sliding |-> FALSE],
     status |-> ""]

\* Assembly(assembly_file, sample_id) of an assembly file with these contigs
InitAR ==
    /\ prog = "assembly_report"
    /\ pc = "ready"
    /\ \E c \in ArAssemblies : ar = [ArIdle EXCEPT !.contigs = c]
    /\ ic = IcIdle
    /\ sp = SpIdle
    /\ am = AmIdle

\* a call of get_summary_stats(output_csv)
ArGetSummaryStats ==
    /\ prog = "assembly_report"
    /\ pc = "ready"
    /\ ar.calls < MaxSummaryCalls
    /\ \E output_csv \in BOOLEAN :
         LET r == get_summary_stats(ar.contigs, ar.summary_info)
         IN /\ ar' = [ar EXCEPT
                        !.summary_info = r.si,
                        !.calls = @ + 1,
                        !.err = r.err,
                        !.csv = IF r.err = "none" /\ output_csv
                                THEN SummaryLine(r.si) ELSE @]
            /\ pc' = IF r.err = "none" THEN "ready" ELSE "raised"
    /\ UNCHANGED <<prog, ic, sp, am>>

(***************************************************************************)
(* integrity_coverage.py                                                   *)
(*                                                                         *)
(* The template runs with its escapes rendered ("\\x1f" is the byte 0x1f,  *)
(* "\\n" a newline).  A FastQ file is read line by line; the lines are     *)
(* inputs drawn as they are read, in the shape their position in their own *)
(* file gives them (header, sequence, "+", quality).                       *)
(***************************************************************************)
\* ord(c) of the characters the FastQ lines are made of
Ord(c) ==
    CASE c = "!" -> 33
      [] c = "+" -> 43
      [] c = ";" -> 59
      [] c = "@" -> 64
      [] c = "A" -> 65
      [] c = "B" -> 66
      [] c = "I" -> 73
      [] c = "J" -> 74
      [] c = "d" -> 100
      [] c = "h" -> 104
      [] c = "i" -> 105
      [] c = "r" -> 114

\* RANGES, in the order of the dictionary
RANGES ==
    << [encoding |-> "Sanger",       phred |-> 33, emin |-> 33, emax |-> 73],
       [encoding |-> "Illumina-1.8", phred |-> 33, emin |-> 33, emax |-> 74],
       [encoding |-> "Solexa",       phred |-> 64, emin |-> 59, emax |-> 104],
       [encoding |-> "Illumina-1.3", phred |-> 64, emin |-> 64, emax |-> 104],
       [encoding |-> "Illumina-1.5", phred |-> 64, emin |-> 66, emax |-> 105] >>

\* MAGIC_DICT: the compression format of each known file signature
MAGIC_DICT == [gz |-> "gz", bz2 |-> "bz2", zip |-> "zip"]

\* guess_file_compression: the format of the signature a file starts with,
\* "None" when it starts with none of them
guess_file_compression(magic) ==
    IF magic \in DOMAIN MAGIC_DICT THEN MAGIC_DICT[magic] ELSE "None"

\* get_qual_range of a non-empty string: (min, max) of the code points
RECURSIVE get_qual_range(_)
get_qual_range(qual_str) ==
    LET o == Ord(Head(qual_str)[1])
    IN IF Len(qual_str) = 1 THEN <<o, o>>
       ELSE LET r == get_qual_range(Tail(qual_str))
            IN <<Min(o, r[1]), Max(o, r[2])>>

\* get_encodings_in_range with <= emax read as < emax
RECURSIVE EncodingsInRangeStrict(_, _, _)
EncodingsInRangeStrict(rmin, rmax, k) ==
    IF k > Len(RANGES) THEN [encodings |-> <<>>, phred |-> <<>>]
    ELSE LET r == EncodingsInRangeStrict(rmin, rmax, k + 1)
         IN IF rmin >= RANGES[k].emin /\ rmax < RANGES[k].emax
            THEN [encodings |-> <<RANGES[k].encoding>> \o r.encodings,
                  phred |-> <<RANGES[k].phred>> \o r.phred]
            ELSE r

\* the loop of get_encodings_in_range over RANGES from its k-th entry on
RECURSIVE EncodingsInRangeFrom(_, _, _)
EncodingsInRangeFrom(rmin, rmax, k) ==
    IF k > Len(RANGES) THEN [encodings |-> <<>>, phred |-> <<>>]
    ELSE LET r == EncodingsInRangeFrom(rmin, rmax, k + 1)
         IN IF rmin >= RANGES[k].emin /\ rmax <= RANGES[k].emax
            THEN [encodings |-> <<RANGES[k].encoding>> \o r.encodings,
                  phred |-> <<RANGES[k].phred>> \o r.phred]
            ELSE r

\* get_encodings_in_range: (valid_encodings, valid_phred)
get_encodings_in_range(rmin, rmax) == EncodingsInRangeFrom(rmin, rmax, 1)

\* What is written to a file: a word, a number (coverage in hundredths), a
\* report line (kind PASS or FAIL, with the coverage), or the members of a
\* set joined by commas, in the order the set happens to iterate in.
Word(w) == [kind |-> w, num |-> 0, items |-> {}]

Number(n) == [kind |-> "number", num |-> n, items |-> {}]

Joined(S) == [kind |-> "joined", num |-> 0, items |-> S]

\* set(l) of a list
ToSet(l) == {l[k] : k \in 1..Len(l)}

(***************************************************************************)
(* Python floats                                                           *)
(*                                                                         *)
(* A float is a binary64, written [m |-> M, e |-> E] for M * 2^E with M    *)
(* odd and of 53 bits or less, or of no bit for 0.0.  The result of an     *)
(* operation is the float nearest to its exact value, a tie going to the   *)
(* even of the two 53-bit neighbours.  The floats of the templates are not *)
(* negative.  M is a natural number in limbs of 15 bits, the least         *)
(* significant first.                                                      *)
(***************************************************************************)
\* the base of the limbs, 2^15
LimbBase == 2^15

\* the limb of weight LimbBase^(i - 1) of a
Limb(a, i) == IF 1 <= i /\ i <= Len(a) THEN a[i] ELSE 0

\* the limbs a without their leading zero limbs
BigTrim(a) ==
    IF a = <<>> \/ a[Len(a)] # 0 THEN a
    ELSE LET set == {i \in 1..Len(a) : a[i] # 0}
         IN IF set = {} THEN <<>>
            ELSE SubSeq(a, 1, CHOOSE i \in set : \A j \in set : j <= i)

\* the limbs of the natural number n, and the natural number of the
\* limbs a, both below 2^31
BigOfInt(n) ==
    BigTrim(<<n % LimbBase, (n \div LimbBase) % LimbBase,
              n \div (LimbBase * LimbBase)>>)

BigToInt(a) ==
    Limb(a, 1) + LimbBase * (Limb(a, 2) + LimbBase * Limb(a, 3))

\* the carry into the limb i of a + b
RECURSIVE Carry(_, _, _)
Carry(a, b, i) ==
    IF i = 1 THEN 0
    ELSE (Limb(a, i - 1) + Limb(b, i - 1) + Carry(a, b, i - 1)) \div LimbBase

BigAdd(a, b) ==
    IF b = <<>> THEN a
    ELSE BigTrim(<<>> \o [i \in 1..((IF Len(a) > Len(b) THEN Len(a) ELSE Len(b)) + 1) |->
               (Limb(a, i) + Limb(b, i) + Carry(a, b, i)) % LimbBase])

\* the borrow from the limb i of a - b
RECURSIVE Borrow(_, _, _)
Borrow(a, b, i) ==
    IF i = 1 THEN 0
    ELSE IF Limb(a, i - 1) - Limb(b, i - 1) - Borrow(a, b, i - 1) < 0 THEN 1
    ELSE 0

\* a >= b, and a - b when it holds
BigGe(a, b) ==
    Borrow(a, b, (IF Len(a) > Len(b) THEN Len(a) ELSE Len(b)) + 1) = 0

BigSub(a, b) ==
    BigTrim(<<>> \o [i \in 1..Len(a) |->
               (Limb(a, i) - Limb(b, i) - Borrow(a, b, i) + LimbBase)
                  % LimbBase])

\* a * k for k below 2^15: the low halves of the products of the
\* limbs, plus their high halves one limb up
BigMulSmall(a, k) ==
    IF k = 0 THEN <<>>
    ELSE BigAdd(<<>> \o [i \in 1..Len(a) |-> (a[i] * k) % LimbBase],
                <<0>> \o [i \in 1..Len(a) |-> (a[i] * k) \div LimbBase])

\* a * b: a by the lowest limb of b, plus a by its other limbs one
\* limb up
RECURSIVE BigMul(_, _)
BigMul(a, b) ==
    IF b = <<>> THEN <<>>
    ELSE BigAdd(BigMulSmall(a, b[1]), <<0>> \o BigMul(a, Tail(b)))

\* the number of bits of the natural number n below 2^15
SmallBitLen(n) ==
    IF n = 0 THEN 0 ELSE CHOOSE k \in 1..15 : 2^(k - 1) <= n /\ n < 2^(k)

\* the number of bits of a
BigBitLen(a) ==
    IF a = <<>> THEN 0 ELSE 15 * (Len(a) - 1) + SmallBitLen(a[Len(a)])

\* a * 2^s: the limbs of a * 2^(s % 15), each made of the low bits of a
\* limb of a and of the high bits of the limb below, over s \div 15 zero
\* limbs
BigShl(a, s) ==
    IF a = <<>> THEN a
    ELSE [i \in 1..(s \div 15) |-> 0]
           \o BigTrim(<<>> \o [i \in 1..(Len(a) + 1) |->
                  ((Limb(a, i) * 2^(s % 15)) % LimbBase)
                    + ((Limb(a, i - 1) * 2^(s % 15)) \div LimbBase)])

\* the limbs of a \div 2^(15 * k + b), for b below 15
ShrLimbs(a, k, b) ==
    [i \in 1..(Len(a) - k) |->
        a[i + k] \div 2^(b)
          + (IF i + k < Len(a) THEN (a[i + k + 1] % 2^(b)) * 2^(15 - b)
             ELSE 0)]

\* the bit of weight 2^j of a
BigBit(a, j) ==
    IF j \div 15 >= Len(a) THEN 0
    ELSE (a[j \div 15 + 1] \div 2^(j % 15)) % 2

\* a bit of weight below 2^j is set in a
BigLowBits(a, j) ==
    \/ \E i \in 1..Len(a) : i <= j \div 15 /\ a[i] # 0
    \/ j \div 15 < Len(a) /\ a[j \div 15 + 1] % 2^(j % 15) # 0

\* a \div 2^s for s > 0, with the bit shifted out last (guard) and whether a
\* bit shifted out before it was set (sticky)
BigShr(a, s) ==
    [q |-> IF s \div 15 >= Len(a) THEN <<>>
           ELSE BigTrim(ShrLimbs(a, s \div 15, s % 15)),
     guard |-> BigBit(a, s - 1),
     sticky |-> BigLowBits(a, s - 1)]

\* the shifted number rounded to the nearest, a tie to the even
RoundHalfEven(r) ==
    IF r.guard = 1 /\ (r.sticky \/ (r.q # <<>> /\ r.q[1] % 2 = 1))
    THEN BigAdd(r.q, <<1>>) ELSE r.q

\* the greatest digit k' <= k with d * k' <= r
RECURSIVE QuotDigit(_, _, _)
QuotDigit(r, d, k) ==
    IF BigGe(r, BigMulSmall(d, k)) THEN k ELSE QuotDigit(r, d, k - 1)

\* the digit of low \div d for low < d * LimbBase and d of 2 limbs or
\* more with the top bit of its leading limb set: the leading limbs of low
\* by the leading limb of d give a digit not below it and at most 2 above
QuotEstimate(low, d) ==
    QuotDigit(low, d,
              IF Limb(low, Len(d) + 1) >= d[Len(d)] THEN LimbBase - 1
              ELSE (Limb(low, Len(d) + 1) * LimbBase + Limb(low, Len(d)))
                      \div d[Len(d)])

\* the digit k of low \div d put below the digits q, and what is left of low
QuotStep(low, d, k, q) ==
    [q |-> <<k>> \o q, r |-> BigSub(low, BigMulSmall(d, k))]

LongStep(low, d, q) == QuotStep(low, d, QuotEstimate(low, d), q)

\* the same for d of one limb and low of two, x below r
ShortStep(x, r, d, q) ==
    [q |-> <<(r * LimbBase + x) \div d>> \o q,
     r |-> BigTrim(<<(r * LimbBase + x) % d>>)]

\* one more limb x of the dividend, below the limbs divided so far, of
\* which hi holds the quotient and the remainder
DivStep(x, hi, d) ==
    IF hi.r = <<>> /\ x = 0 THEN [q |-> <<0>> \o hi.q, r |-> <<>>]
    ELSE IF Len(d) = 1 THEN ShortStep(x, Limb(hi.r, 1), d[1], hi.q)
    ELSE LongStep(BigTrim(<<x>> \o hi.r), d, hi.q)

\* a \div d and a % d, from the limb i of a on, for d with the top bit of
\* its leading limb set and a 56 bits longer than d: the leading limbs of
\* a, as many as d has, are below d, and each of the 4 others gives a digit
\* of the quotient
RECURSIVE BigDivMod(_, _, _)
BigDivMod(a, d, i) ==
    IF i > Len(a) - Len(d) THEN [q |-> <<>>, r |-> SubSeq(a, i, Len(a))]
    ELSE DivStep(a[i], BigDivMod(a, d, i + 1), d)

\* the quotient, of 56 bits or more, with its last bit set when the
\* division left a remainder: the bit is below those that the rounding to
\* 53 bits keeps, and tells it that the quotient is not exact
StickyQuot(qr) ==
    IF qr.r = <<>> \/ qr.q[1] % 2 = 1 THEN qr.q
    ELSE [qr.q EXCEPT ![1] = @ + 1]

\* the shifted number rounded up when a bit was shifted out
RoundUp(r) ==
    IF r.guard = 1 \/ r.sticky THEN BigAdd(r.q, <<1>>) ELSE r.q

\* the number of zero bits at the low end of a, a not 0
LowZeros(a) ==
    LET i == CHOOSE i \in 1..Len(a) :
                a[i] # 0 /\ \A j \in 1..(i - 1) : a[j] = 0
    IN 15 * (i - 1)
         + CHOOSE t \in 0..14 : a[i] % 2^t = 0 /\ a[i] % 2^(t + 1) # 0

\* the float a * 2^e for a of 53 bits or less with z zero bits at
\* its low end, which go into the exponent
Normal(a, e, z) ==
    IF z = 0 THEN [m |-> a, e |-> e]
    ELSE [m |-> BigShr(a, z).q, e |-> e + z]

Odd(x) == Normal(x.m, x.e, LowZeros(x.m))

\* the float nearest to a * 2^e for a of n bits, a not 0
Nearest(a, e, n) ==
    Odd(IF n <= 53 THEN [m |-> a, e |-> e]
        ELSE [m |-> RoundHalfEven(BigShr(a, n - 53)), e |-> e + n - 53])

Rounded(x) == Nearest(x.m, x.e, BigBitLen(x.m))

\* the float nearest to (a / d) * 2^e: a * 2^up is 56 bits longer
\* than d, and both are shifted by norm to set the top bit of the
\* leading limb of the divisor
Quotient(a, d, e, up, norm) ==
    Rounded(IF d = <<1>> THEN [m |-> a, e |-> e]
            ELSE [m |-> StickyQuot(BigDivMod(BigShl(a, up + norm),
                                             BigShl(d, norm), 1)),
                  e |-> e - up])

\* float(n / d) for naturals n and d, d not 0: float(n) with d = 1, the
\* float of a decimal with one digit after the point with d = 10
FloatOf(n, d) ==
    IF n = 0 THEN [m |-> <<>>, e |-> 0]
    ELSE Quotient(BigOfInt(n), BigOfInt(d), 0,
                  56 + BigBitLen(BigOfInt(d)) - BigBitLen(BigOfInt(n)),
                  15 * Len(BigOfInt(d)) - BigBitLen(BigOfInt(d)))

\* a * b
FMul(a, b) ==
    IF a.m = <<>> \/ b.m = <<>> THEN [m |-> <<>>, e |-> 0]
    ELSE Rounded([m |-> BigMul(a.m, b.m), e |-> a.e + b.e])

\* a / b, b not 0
FDiv(a, b) ==
    IF a.m = <<>> THEN [m |-> <<>>, e |-> 0]
    ELSE Quotient(a.m, b.m, a.e - b.e, 56 + BigBitLen(b.m) - BigBitLen(a.m),
                  15 * Len(b.m) - BigBitLen(b.m))

\* the greatest integer not above x and the least not below it, which
\* decide n > x and n < x for an int n
FFloor(x) ==
    IF x.e >= 0 THEN BigToInt(BigShl(x.m, x.e))
    ELSE BigToInt(BigShr(x.m, 0 - x.e).q)

FCeil(x) ==
    IF x.e >= 0 THEN BigToInt(BigShl(x.m, x.e))
    ELSE BigToInt(RoundUp(BigShr(x.m, 0 - x.e)))

\* round(x, 2) in hundredths: the integer nearest to x * 100, x taken for
\* what it is, a tie to the even
FRound2(x) ==
    IF x.e >= 0 THEN BigToInt(BigShl(BigMulSmall(x.m, 100), x.e))
    ELSE BigToInt(RoundHalfEven(BigShr(BigMulSmall(x.m, 100), 0 - x.e)))

\* round(chars / (gsize * 1e6), 2) in hundredths, truncating
Round2Trunc(chars, gsize10) == chars \div (gsize10 * 1000)

\* round(chars / (gsize * 1e6), 2) in hundredths; gsize10 is gsize in tenths
\* of a Mb.  The quotient is a float, and round takes the hundredth nearest
\* to the value the float has.
Round2(chars, gsize10) ==
    FRound2(FDiv(FloatOf(chars, 1), FMul(FloatOf(gsize10, 10), FloatOf(1000000, 1))))

\* the body of the loop of main with the bounds of the last quality line
\* that widens them taken as they are
IcLineLastRange(st, line) ==
    IF (st.i + 1) % 4 = 0 /\ ~st.skip_encoding
    THEN IF line = <<>>
         THEN [st EXCEPT !.err = "ValueError"]
         ELSE LET l == get_qual_range(line)
                  e == get_encodings_in_range(l[1], l[2])
              IN IF l[1] < st.gmin \/ l[2] > st.gmax
                 THEN [st EXCEPT !.gmin = l[1], !.gmax = l[2],
                                 !.encoding = e.encodings,
                                 !.phred = e.phred, !.i = @ + 1]
                 ELSE [st EXCEPT !.i = @ + 1]
    ELSE IF (st.i + 3) % 4 = 0
    THEN [st EXCEPT !.chars = @ + StrLen(line),
                    !.max_read_length = Max(@, StrLen(line)),
                    !.i = @ + 1]
    ELSE [st EXCEPT !.i = @ + 1]

\* the body of the loop of main with the option -e ignored
IcLineNoSkip(st, line) ==
    IF (st.i + 1) % 4 = 0
    THEN IF line = <<>>
         THEN [st EXCEPT !.err = "ValueError"]
         ELSE LET l == get_qual_range(line)
                  gmin == Min(l[1], st.gmin)
                  gmax == Max(l[2], st.gmax)
                  e == get_encodings_in_range(gmin, gmax)
              IN [st EXCEPT !.gmin = gmin, !.gmax = gmax,
                            !.encoding = e.encodings,
                            !.phred = e.phred, !.i = @ + 1]
    ELSE IF (st.i + 3) % 4 = 0
    THEN [st EXCEPT !.chars = @ + StrLen(line),
                    !.max_read_length = Max(@, StrLen(line)),
                    !.i = @ + 1]
    ELSE [st EXCEPT !.i = @ + 1]

\* the body of the loop of main for line number i
IcLine(st, line) ==
    IF (st.i + 1) % 4 = 0 /\ ~st.skip_encoding
    THEN IF line = <<>>
         THEN [st EXCEPT !.err = "ValueError"]
         ELSE LET l == get_qual_range(line)
              IN IF l[1] < st.gmin \/ l[2] > st.gmax
                 THEN LET gmin == Min(l[1], st.gmin)
                          gmax == Max(l[2], st.gmax)
                          e == get_encodings_in_range(gmin, gmax)
                      IN [st EXCEPT !.gmin = gmin, !.gmax = gmax,
                                    !.encoding = e.encodings,
                                    !.phred = e.phred, !.i = @ + 1]
                 ELSE [st EXCEPT !.i = @ + 1]
    ELSE IF (st.i + 3) % 4 = 0
    THEN LET read_len == StrLen(line)
         IN [st EXCEPT !.chars = @ + read_len,
                       !.max_read_length = Max(@, read_len),
                       !.i = @ + 1]
    ELSE [st EXCEPT !.i = @ + 1]

\* what main writes to the five files once both files are read
IcWritten(st, exp_coverage) ==
    LET pass == exp_coverage >= 100 * st.minimum_coverage
        joint == Len(st.encoding) > 1
    IN [encoding |-> <<IF joint THEN Joined(ToSet(st.encoding)) ELSE Word("None")>>,
        phred    |-> <<IF joint THEN Joined(ToSet(st.phred)) ELSE Word("None")>>,
        coverage |-> <<IF pass THEN Number(exp_coverage) ELSE Word("fail")>>,
        report   |-> <<[kind |-> IF pass THEN "PASS" ELSE "FAIL",
                        num |-> exp_coverage, items |-> {}]>>,
        max_len  |-> <<Number(st.max_read_length)>>]

\* exp_coverage = round(chars / (gsize * 1e6), 2), and the files written
IcReport(st) == IcWritten(st, Round2(st.chars, st.gsize10))

\* the except EOFError clause of main
IcCorrupt(out) == [f \in DOMAIN out |-> Append(out[f], Word("corrupt"))]

\* the five output files, opened and empty
IcNoOutput == [encoding |-> <<>>, phred |-> <<>>, coverage |-> <<>>,
               report |-> <<>>, max_len |-> <<>>]

\* sequence lines: reads of these lengths
ReadLens == {0, 10000, 250000, 1000000, 15000000, 19990000}

\* quality lines
QualLines ==
    { <<>>,
      StrCat(Rep("!", 1), Rep("I", 1)),
      StrCat(Rep("!", 1), Rep("J", 1)),
      StrCat(Rep("@", 1), Rep("h", 1)),
      StrCat(Rep("B", 1), Rep("i", 1)),
      StrCat(Rep("d", 1), Rep("h", 1)),
      StrCat(Rep("!", 1), Rep("i", 1)) }

\* the lines a FastQ file can hold at line p (from 0) of the file
FastqLines(p) ==
    CASE p % 4 = 0 -> {StrCat(Rep("@", 1), Rep("r", 1))}
      [] p % 4 = 1 -> {Rep("A", n) : n \in ReadLens}
      [] p % 4 = 2 -> {Rep("+", 1)}
      [] p % 4 = 3 -> QualLines

\* gsize, in tenths of a Mb
GenomeSizes10 == {20}

\* minimum_coverage
MinimumCoverages == {10, 15}

\* the signatures the FastQ files start with
FileMagics == {"gz", "bz2", "zip", "text"}

\* most lines read from one FastQ file
MaxFileLines == 4

\* main up to the output files being opened; phred <<>> stands for None
IcStart(skip_encoding, gsize10, minimum_coverage, magic) ==
    [skip_encoding |-> skip_encoding, gsize10 |-> gsize10,
     minimum_coverage |-> minimum_coverage, magic |-> magic,
     ftype |-> <<>>,
     gmin |-> 99, gmax |-> 0, encoding |-> <<>>, phred |-> <<>>,
     chars |-> 0, max_read_length |-> 0, i |-> 0,
     fidx |-> 1, fpos |-> 0, err |-> "none", out |-> IcNoOutput,
     truncated |-> FALSE, eof |-> FALSE]

InitIC ==
    /\ prog = "integrity_coverage"
    /\ pc = "start"
    /\ \E skip_encoding \in BOOLEAN, gsize10 \in GenomeSizes10,
          minimum_coverage \in MinimumCoverages,
          magic \in [1..2 -> FileMagics] :
         ic = IcStart(skip_encoding, gsize10, minimum_coverage, magic)
    /\ ar = ArIdle
    /\ sp = SpIdle
    /\ am = AmIdle

\* main opens the two FastQ files by their compression; ZipFile refuses the
\* mode "rt"
IcOpen ==
    /\ prog = "integrity_coverage"
    /\ pc = "start"
    /\ LET ftype == [k \in 1..2 |-> guess_file_compression(ic.magic[k])]
       IN IF \E k \in 1..2 : ftype[k] = "zip"
          THEN /\ ic' = [ic EXCEPT !.ftype = ftype, !.err = "ValueError"]
               /\ pc' = "crashed"
          ELSE /\ ic' = [ic EXCEPT !.ftype = ftype]
               /\ pc' = "read"
    /\ UNCHANGED <<prog, ar, sp, am>>

\* one turn of the loop over chain(*file_objects)
IcReadLine ==
    /\ prog = "integrity_coverage"
    /\ pc = "read"
    /\ ic.fpos < MaxFileLines
    /\ \E line \in FastqLines(ic.fpos) :
         LET st == IcLine(ic, line)
         IN /\ ic' = [st EXCEPT !.fpos = @ + 1]
            /\ pc' = IF st.err = "none" THEN "read" ELSE "crashed"
    /\ UNCHANGED <<prog, ar, sp, am>>

\* the first file ends and the chain goes on with the second
IcNextFile ==
    /\ prog = "integrity_coverage"
    /\ pc = "read"
    /\ ic.fidx = 1
    /\ ic' = [ic EXCEPT !.fidx = 2, !.fpos = 0,
                        !.truncated = @ \/ ic.fpos % 4 # 0]
    /\ pc' = "read"
    /\ UNCHANGED <<prog, ar, sp, am>>

\* the second file ends: end of FastQ parsing, the results are written
IcFinish ==
    /\ prog = "integrity_coverage"
    /\ pc = "read"
    /\ ic.fidx = 2
    /\ ic' = [ic EXCEPT !.out = IcReport(ic),
                        !.truncated = @ \/ ic.fpos % 4 # 0]
    /\ pc' = "done"
    /\ UNCHANGED <<prog, ar, sp, am>>

\* the compressed stream of the file being read ends before its end-of-stream
\* marker: the reader raises EOFError
IcEOFError ==
    /\ prog = "integrity_coverage"
    /\ pc = "read"
    /\ ic.ftype[ic.fidx] \in {"gz", "bz2"}
    /\ ic' = [ic EXCEPT !.out = IcCorrupt(@), !.truncated = TRUE, !.eof = TRUE]
    /\ pc' = "done"
    /\ UNCHANGED <<prog, ar, sp, am>>

NextIC == IcOpen \/ IcReadLine \/ IcNextFile \/ IcFinish \/ IcEOFError

SpecIC == InitIC /\ [][NextIC]_vars

(***************************************************************************)
(* process_spades.py: class Assembly                                       *)
(*                                                                         *)
(* An assembly file is a sequence of lines: header lines (">" lines, with  *)
(* the k-mer coverage their last "_" field holds) and sequence lines.      *)
(* Lengths, coverages and thresholds are compared as rationals.            *)
(***************************************************************************)
Q(n) == <<n, 1>>

HeaderLine(h, cov) == [header |-> TRUE, name |-> h, cov |-> cov, s |-> <<>>]

SeqLine(s) == [header |-> FALSE, name |-> 0, cov |-> 0, s |-> s]

\* header None, cov None before the first header line
NoHeader == 0

\* _get_gc_content with every character that is not A or T counted as GC
GcContentNotAT(sequence, length) ==
    LET at == StrCount(sequence, "A") + StrCount(sequence, "T")
        gc == length - at
    IN [at |-> at, gc |-> gc, n |-> length - (at + gc),
        at_prop |-> Rat(at, length), gc_prop |-> Rat(gc, length),
        n_prop |-> Rat(length - (at + gc), length)]

\* Assembly._get_gc_content, for length > 0
get_gc_content(sequence, length) ==
    LET at == StrCount(sequence, "A") + StrCount(sequence, "T")
        gc == StrCount(sequence, "G") + StrCount(sequence, "C")
    IN [at |-> at, gc |-> gc, n |-> length - (at + gc),
        at_prop |-> Rat(at, length), gc_prop |-> Rat(gc, length),
        n_prop |-> Rat(length - (at + gc), length)]

\* Assembly._populate_contigs: the entry self.contigs[contig_id] is given
populate_contigs(contig_id, header, cov, sequence) ==
    LET g == get_gc_content(sequence, StrLen(sequence))
    IN [contig_id |-> contig_id, header |-> header, sequence |-> sequence,
        length |-> StrLen(sequence), kmer_cov |-> cov,
        at |-> g.at, gc |-> g.gc, n |-> g.n,
        at_prop |-> g.at_prop, gc_prop |-> g.gc_prop, n_prop |-> g.n_prop]

\* the loop of Assembly._parse_assembly over the lines; st holds seq_temp
\* (joined), contig_id, cov, header and the contigs populated so far
RECURSIVE ParseLines(_, _)
ParseLines(lines, st) ==
    IF lines = <<>> THEN st
    ELSE LET line == Head(lines)
         IN IF ~line.header /\ line.s = <<>>
            THEN ParseLines(Tail(lines), st)
            ELSE IF line.header
            THEN LET st1 ==
                       IF st.seq_temp # <<>>
                       THEN [st EXCEPT
                               !.contigs = Append(@, populate_contigs(
                                   st.contig_id, st.header, st.cov, st.seq_temp)),
                               !.seq_temp = <<>>,
                               !.contig_id = @ + 1]
                       ELSE st
                 IN ParseLines(Tail(lines),
                               [st1 EXCEPT !.header = line.name, !.cov = line.cov])
            ELSE ParseLines(Tail(lines), [st EXCEPT !.seq_temp = StrCat(@, line.s)])

\* Assembly._parse_assembly: self.contigs, and the exception raised if any
\* (the last contig is populated whatever seq_temp holds)
parse_assembly(lines) ==
    LET st == ParseLines(lines,
                  [seq_temp |-> <<>>, contig_id |-> 0, cov |-> NoHeader,
                   header |-> NoHeader, contigs |-> <<>>])
    IN IF st.seq_temp = <<>>
       THEN [contigs |-> st.contigs, err |-> "ZeroDivisionError"]
       ELSE [contigs |-> Append(st.contigs,
                 populate_contigs(st.contig_id, st.header, st.cov, st.seq_temp)),
             err |-> "none"]

\* contig[key] for the keys the filters use
ContigValue(contig, key) ==
    CASE key = "length" -> Q(contig.length)
      [] key = "kmer_cov" -> Q(contig.kmer_cov)
      [] key = "gc_prop" -> contig.gc_prop

\* _test_truth with >= read as >
TestTruthStrict(x, op, y) ==
    CASE op = ">" -> RatLt(y, x)
      [] op = "<" -> RatLt(x, y)
      [] op = ">=" -> RatLt(y, x)
      [] op = "<=" -> RatLe(x, y)

\* Assembly._test_truth
test_truth(x, op, y) ==
    CASE op = ">" -> RatLt(y, x)
      [] op = "<" -> RatLt(x, y)
      [] op = ">=" -> RatLe(y, x)
      [] op = "<=" -> RatLe(x, y)

Rule(key, op, value) == [key |-> key, op |-> op, value |-> value]

\* self.min_gc, as the rational 1/20
min_gc == <<1, 20>>

\* gc_filters with the upper bound left out
GcFiltersMinOnly == << Rule("gc_prop", ">=", min_gc) >>

\* gc_filters of filter_contigs
gc_filters ==
    << Rule("gc_prop", ">=", min_gc),
       Rule("gc_prop", "<=", <<min_gc[2] - min_gc[1], min_gc[2]>>) >>

\* the report entry of a contig: pass, or key/value/threshold
Pass == [key |-> "pass", value |-> Q(0), threshold |-> Q(0)]

Reason(key, value, threshold) ==
    [key |-> key, value |-> value, threshold |-> threshold]

\* contig[key] is None: comparing it with a number raises TypeError
IsNone(contig, key) == key = "kmer_cov" /\ contig.kmer_cov = NoHeader

\* d[k] = v on a dictionary held as the sequence of its (key, value) pairs
DictSet(d, k, v) ==
    IF \E j \in 1..Len(d) : d[j][1] = k
    THEN [j \in 1..Len(d) |-> IF d[j][1] = k THEN <<k, v>> ELSE d[j]]
    ELSE Append(d, <<k, v>>)

\* the loop over the rules with OR semantics: the contig is kept at the
\* first rule that holds and filtered when none does
RECURSIVE RulesLoopAny(_, _, _, _)
RulesLoopAny(contig, rules, j, a) ==
    IF j > Len(rules)
    THEN [a EXCEPT
            !.filtered_ids = Append(@, contig.contig_id),
            !.report = DictSet(@, contig.contig_id,
                Reason(rules[Len(rules)].key,
                       ContigValue(contig, rules[Len(rules)].key),
                       rules[Len(rules)].value))]
    ELSE LET r == rules[j]
             a1 == [a EXCEPT !.tested = Append(@, <<contig.contig_id, j>>)]
         IN IF IsNone(contig, r.key)
            THEN [a1 EXCEPT !.err = "TypeError"]
            ELSE IF test_truth(ContigValue(contig, r.key), r.op, r.value)
            THEN [a1 EXCEPT !.report = DictSet(@, contig.contig_id, Pass)]
            ELSE RulesLoopAny(contig, rules, j + 1, a1)

\* the loop over the rules without the break
RECURSIVE RulesLoopNoBreak(_, _, _, _)
RulesLoopNoBreak(contig, rules, j, a) ==
    IF j > Len(rules) THEN a
    ELSE LET r == rules[j]
             a1 == [a EXCEPT !.tested = Append(@, <<contig.contig_id, j>>)]
         IN IF IsNone(contig, r.key)
            THEN [a1 EXCEPT !.err = "TypeError"]
            ELSE IF ~test_truth(ContigValue(contig, r.key), r.op, r.value)
            THEN RulesLoopNoBreak(contig, rules, j + 1,
                   [a1 EXCEPT
                     !.filtered_ids = Append(@, contig.contig_id),
                     !.report = DictSet(@, contig.contig_id,
                         Reason(r.key, ContigValue(contig, r.key), r.value))])
            ELSE RulesLoopNoBreak(contig, rules, j + 1,
                   [a1 EXCEPT !.report = DictSet(@, contig.contig_id, Pass)])

\* the loop over the rules left after its first turn, whatever the test gives
RulesLoopFirstOnly(contig, rules, j, a) ==
    IF j > Len(rules) THEN a
    ELSE LET r == rules[j]
             a1 == [a EXCEPT !.tested = Append(@, <<contig.contig_id, j>>)]
         IN IF IsNone(contig, r.key)
            THEN [a1 EXCEPT !.err = "TypeError"]
            ELSE IF ~test_truth(ContigValue(contig, r.key), r.op, r.value)
            THEN [a1 EXCEPT
                    !.filtered_ids = Append(@, contig.contig_id),
                    !.report = DictSet(@, contig.contig_id,
                        Reason(r.key, ContigValue(contig, r.key), r.value))]
            ELSE [a1 EXCEPT !.report = DictSet(@, contig.contig_id, Pass)]

\* the loop of filter_contigs over the rules, for one contig, from rule j on;
\* a holds filtered_ids, report, the _test_truth calls made and the
\* exception raised, if any
RECURSIVE RulesLoop(_, _, _, _)
RulesLoop(contig, rules, j, a) ==
    IF j > Len(rules) THEN a
    ELSE LET r == rules[j]
             a1 == [a EXCEPT !.tested = Append(@, <<contig.contig_id, j>>)]
         IN IF IsNone(contig, r.key)
            THEN [a1 EXCEPT !.err = "TypeError"]
            ELSE IF ~test_truth(ContigValue(contig, r.key), r.op, r.value)
            THEN [a1 EXCEPT
                    !.filtered_ids = Append(@, contig.contig_id),
                    !.report = DictSet(@, contig.contig_id,
                        Reason(r.key, ContigValue(contig, r.key), r.value))]
            ELSE RulesLoop(contig, rules, j + 1,
                   [a1 EXCEPT !.report = DictSet(@, contig.contig_id, Pass)])

\* the loop of filter_contigs over self.contigs, left when a comparison
\* raised
RECURSIVE ContigsLoop(_, _, _)
ContigsLoop(contigs, rules, a) ==
    IF contigs = <<>> \/ a.err # "none" THEN a
    ELSE ContigsLoop(Tail(contigs), rules, RulesLoop(Head(contigs), rules, 1, a))

\* filter_contigs entered with the lists the last call left
KeepFiltered(filtered_ids, report) ==
    [filtered_ids |-> filtered_ids, report |-> report, tested |-> <<>>,
     err |-> "none"]

\* "Reset list of filtered ids": self.filtered_ids = [], self.report = {}
ResetFiltered(filtered_ids, report) ==
    [filtered_ids |-> <<>>, report |-> <<>>, tested |-> <<>>, err |-> "none"]

\* Assembly.filter_contigs(self, *comparisons): filtered_ids, report and
\* filters as the call leaves them, with the _test_truth calls it made
filter_contigs(self, comparisons) ==
    LET a == ContigsLoop(self.contigs, comparisons \o gc_filters,
                         ResetFiltered(self.filtered_ids, self.report))
    IN [filters |-> comparisons \o gc_filters] @@ a

\* Assembly.get_assembly_length
RECURSIVE get_assembly_length(_, _)
get_assembly_length(contigs, filtered_ids) ==
    IF contigs = <<>> THEN 0
    ELSE (IF \E j \in 1..Len(filtered_ids) : filtered_ids[j] = Head(contigs).contig_id
          THEN 0 ELSE Head(contigs).length)
         + get_assembly_length(Tail(contigs), filtered_ids)

\* Assembly.write_assembly: the (header, sequence) pairs written
RECURSIVE write_assembly(_, _, _)
write_assembly(contigs, filtered_ids, filtered) ==
    IF contigs = <<>> THEN <<>>
    ELSE (IF (~\E j \in 1..Len(filtered_ids) :
                  filtered_ids[j] = Head(contigs).contig_id) /\ filtered
          THEN << <<Head(contigs).header, Head(contigs).sequence>> >>
          ELSE <<>>)
         \o write_assembly(Tail(contigs), filtered_ids, filtered)

\* the contigs the SPAdes assembly files are made of: (k-mer coverage,
\* sequence); the last one is a header with no sequence line
SpContigPool ==
    { <<1, StrCat(Rep("A", 125000), Rep("G", 125000))>>,
      <<5, StrCat(Rep("A", 250000), Rep("C", 250000))>>,
      <<5, StrCat(Rep("A", 500000), Rep("G", 500000))>>,
      <<5, StrCat(Rep("A", 3075000), Rep("G", 3075000))>>,
      <<5, StrCat(Rep("A", 245000), Rep("G", 245000))>>,
      <<5, StrCat(Rep("G", 1), Rep("A", 19))>>,
      <<1, StrCat(Rep("G", 19), Rep("N", 1))>>,
      <<5, StrCat(Rep("A", 21), Rep("G", 1))>>,
      <<5, Rep("G", 500000)>>,
      <<5, Rep("N", 30)>>,
      <<5, <<>>>> }

\* most contigs of a SPAdes assembly file
MaxSpContigs == 2

\* most calls of filter_contigs a caller makes on one Assembly object
MaxFilterCalls == 2

\* the lines of the file holding the contigs q, the k-th under the header k
RECURSIVE SpFileLines(_, _)
SpFileLines(q, k) ==
    IF k > Len(q) THEN <<>>
    ELSE <<HeaderLine(k, q[k][1])>>
         \o (IF q[k][2] = <<>> THEN <<>> ELSE <<SeqLine(q[k][2])>>)
         \o SpFileLines(q, k + 1)

\* sequence lines a file holds before its first header line
SpHeadless ==
    { StrCat(Rep("G", 1), Rep("A", 19)), StrCat(Rep("A", 250000), Rep("C", 250000)) }

SpFiles ==
    {SpFileLines(q, 1) : q \in SeqsUpTo(SpContigPool, MaxSpContigs)}
    \cup {<<SeqLine(s)>> \o SpFileLines(q, 1) :
             s \in SpHeadless, q \in SeqsUpTo(SpContigPool, MaxSpContigs - 1)}

\* opts: min_contig_len, min_kmer_cov, max_contigs
SpMinContigLens == {21, 300000}

SpMinKmerCovs == {2}

SpMaxContigs == {1, 2}

\* gsize, in tenths of a Mb.  At 4.1 the float t_150 is 6149999.999999999
\* and at 8.3 the float t_80 is 6640000.000000001, which contigs of
\* 6,150,000 and of 6,150,000 + 490,000 bases meet.
SpGenomeSizes10 == {10, 41, 83}

\* rule sets callers hand to filter_contigs
SpRuleSets ==
    { <<>>,
      << Rule("length", ">=", Q(21)) >>,
      << Rule("length", ">=", Q(21)), Rule("kmer_cov", ">=", Q(2)) >>,
      << Rule("kmer_cov", ">=", Q(2)), Rule("length", ">=", Q(21)) >>,
      << Rule("gc_prop", ">", <<1, 2>>) >>,
      << Rule("length", "<", Q(500000)), Rule("kmer_cov", "<=", Q(1)),
         Rule("gc_prop", "<=", <<1, 2>>) >> }

SpInputs ==
    { [SpIdle EXCEPT !.assembly_file = f, !.min_contig_len = l,
                     !.min_kmer_cov = c, !.max_contigs = m, !.gsize10 = g] :
        f \in SpFiles, l \in SpMinContigLens, c \in SpMinKmerCovs,
        m \in SpMaxContigs, g \in SpGenomeSizes10 }

\* o.filter_contigs(*comparisons)
FilterContigs(o, comparisons) ==
    filter_contigs(o, comparisons)
        @@ [o EXCEPT !.comparisons = comparisons, !.ncalls = @ + 1]

\* Assembly(assembly_file, min_contig_len, min_kmer_cov, sample_id): the
\* object after __init__, or as the exception of _parse_assembly or of
\* filter_contigs leaves it
NewAssembly(o) ==
    LET p == parse_assembly(o.assembly_file)
        first == << Rule("length", ">=", Q(o.min_contig_len)),
                    Rule("kmer_cov", ">=", Q(o.min_kmer_cov)) >>
        parsed == [o EXCEPT !.contigs = p.contigs]
        f == FilterContigs(parsed, first)
    IN IF p.err # "none"
       THEN [parsed EXCEPT !.filters = first, !.err = p.err]
       ELSE f

(***************************************************************************)
(* An Assembly object used by a caller of its methods                      *)
(***************************************************************************)
InitSpObject ==
    /\ prog = "spades_assembly"
    /\ pc = "start"
    /\ sp \in {o \in SpInputs : o.max_contigs = 1}
    /\ ar = ArIdle
    /\ ic = IcIdle
    /\ am = AmIdle

SpNew ==
    /\ prog = "spades_assembly"
    /\ pc = "start"
    /\ sp' = NewAssembly(sp)
    /\ pc' = IF sp'.err = "none" THEN "ready" ELSE "raised"
    /\ UNCHANGED <<prog, ar, ic, am>>

SpFilterContigs ==
    /\ prog = "spades_assembly"
    /\ pc = "ready"
    /\ sp.ncalls <= MaxFilterCalls
    /\ \E comparisons \in SpRuleSets : sp' = FilterContigs(sp, comparisons)
    /\ pc' = IF sp'.err = "none" THEN "ready" ELSE "raised"
    /\ UNCHANGED <<prog, ar, ic, am>>

\* o.write_assembly(output_file, filtered)
SpWriteAssembly ==
    /\ prog = "spades_assembly"
    /\ pc = "ready"
    /\ \E filtered \in BOOLEAN :
         sp' = [sp EXCEPT !.filtered = filtered,
                          !.output_assembly
                             = write_assembly(sp.contigs, sp.filtered_ids, filtered)]
    /\ pc' = "written"
    /\ UNCHANGED <<prog, ar, ic, am>>

(***************************************************************************)
(* process_spades.py: main                                                 *)
(***************************************************************************)
InitSpMain ==
    /\ prog = "process_spades"
    /\ pc = "start"
    /\ sp \in SpInputs
    /\ ar = ArIdle
    /\ ic = IcIdle
    /\ am = AmIdle

\* the lower threshold taken at 75% of the genome size
T75(gsize10) == FloatOf(gsize10 * 75000, 1)

\* t_80 and t_150 of main: gsize * 1000000 * 0.8 and gsize * 1000000 * 1.5,
\* floats.  Python compares an int with a float by their exact values:
\* n < t is n < FCeil(t), and n > t is n > FFloor(t).
T80(gsize10) == FMul(FMul(FloatOf(gsize10, 10), FloatOf(1000000, 1)), FloatOf(8, 10))

T150(gsize10) == FMul(FMul(FloatOf(gsize10, 10), FloatOf(1000000, 1)), FloatOf(15, 10))

\* contig_threshold: (max_contigs * gsize) / 1.5
ContigThreshold(max_contigs, gsize10) ==
    FDiv(FMul(FloatOf(max_contigs, 1), FloatOf(gsize10, 10)), FloatOf(15, 10))

\* main up to the Assembly being built; an exception ends the template in
\* _log_error
SpMainAssembly ==
    /\ prog = "process_spades"
    /\ pc = "start"
    /\ LET o == NewAssembly(sp)
       IN IF o.err = "none"
          THEN sp' = o /\ pc' = "size"
          ELSE sp' = [o EXCEPT !.status = "error"] /\ pc' = "done"
    /\ UNCHANGED <<prog, ar, ic, am>>

\* the check against t_80, with the second filtering
SpMainSize ==
    /\ prog = "process_spades"
    /\ pc = "size"
    /\ LET len1 == get_assembly_length(sp.contigs, sp.filtered_ids)
           o == FilterContigs(sp, << Rule("length", ">=", Q(sp.min_contig_len)) >>)
           len2 == get_assembly_length(o.contigs, o.filtered_ids)
       IN IF len1 < FCeil(T80(sp.gsize10))
          THEN IF len2 < FCeil(T80(sp.gsize10))
               THEN sp' = [o EXCEPT !.assembly_len = len2,
                                    !.warn_fh = Append(@, "small"),
                                    !.fails = Fail("Small_genome_size", len2)]
               ELSE sp' = [o EXCEPT !.assembly_len = len2]
          ELSE sp' = [sp EXCEPT !.assembly_len = len1]
    /\ pc' = "large"
    /\ UNCHANGED <<prog, ar, ic, am>>

\* the check against t_150
SpMainLarge ==
    /\ prog = "process_spades"
    /\ pc = "large"
    /\ sp' = IF sp.assembly_len > FFloor(T150(sp.gsize10))
             THEN [sp EXCEPT !.warn_fh = Append(@, "large"),
                             !.fails = Fail("Large_genome_size", sp.assembly_len)]
             ELSE sp
    /\ pc' = "contigs"
    /\ UNCHANGED <<prog, ar, ic, am>>

\* the check of the number of contigs: len(contigs) > max_contigs * gsize / 1.5
SpMainContigs ==
    /\ prog = "process_spades"
    /\ pc = "contigs"
    /\ sp' = IF Len(sp.contigs) > FFloor(ContigThreshold(sp.max_contigs, sp.gsize10))
             THEN [sp EXCEPT !.warn_fh = Append(@, "contigs"),
                             !.warnings = Append(@, "excessive_contigs:moderate")]
             ELSE sp
    /\ pc' = "write"
    /\ UNCHANGED <<prog, ar, ic, am>>

\* the filtered assembly, the report and the status are written
SpMainWrite ==
    /\ prog = "process_spades"
    /\ pc = "write"
    /\ sp' = [sp EXCEPT
                !.output_assembly = write_assembly(sp.contigs, sp.filtered_ids, TRUE),
                !.output_report = sp.report,
                !.status = "pass"]
    /\ pc' = "done"
    /\ UNCHANGED <<prog, ar, ic, am>>

NextSpObject == SpNew \/ SpFilterContigs \/ SpWriteAssembly

NextSpMain ==
    SpMainAssembly \/ SpMainSize \/ SpMainLarge \/ SpMainContigs \/ SpMainWrite

\* the Assembly class under its callers: main and direct calls
SpecSP == (InitSpObject \/ InitSpMain) /\ [][NextSpObject \/ NextSpMain]_vars

(***************************************************************************)
(* process_assembly_mapping.py                                             *)
(*                                                                         *)
(* The coverage table is a sequence of rows (contig, cov, len), len being  *)
(* the length the contig header holds. The per-base table is a sequence of *)
(* runs (header, coverage, n): n consecutive lines of one contig with the  *)
(* same coverage. Dictionaries are sequences of (key, value) pairs.        *)
(***************************************************************************)
HasKey(d, k) == \E j \in 1..Len(d) : d[j][1] = k

\* d[k], for a key d holds
Lookup(d, k) == d[CHOOSE j \in 1..Len(d) : d[j][1] = k][2]

\* parse_coverage_table: the loop over the lines
RECURSIVE ParseCoverageLoop(_, _)
ParseCoverageLoop(rows, a) ==
    IF rows = <<>> THEN a
    ELSE LET r == Head(rows)
         IN ParseCoverageLoop(Tail(rows),
              [coverage_dict |-> DictSet(a.coverage_dict, r.contig,
                                         [cov |-> r.cov, len |-> r.len]),
               total_size |-> a.total_size + r.len,
               total_cov |-> a.total_cov + r.cov])

parse_coverage_table(coverage_file) ==
    ParseCoverageLoop(coverage_file,
        [coverage_dict |-> <<>>, total_size |-> 0, total_cov |-> 0])

\* get_coverage_from_file: the coverages of each header, as runs
RECURSIVE get_coverage_from_file(_, _)
get_coverage_from_file(coverage_file, contig_coverage) ==
    IF coverage_file = <<>> THEN contig_coverage
    ELSE LET r == Head(coverage_file)
             run == <<r.coverage, r.n>>
         IN get_coverage_from_file(Tail(coverage_file),
              IF ~HasKey(contig_coverage, r.header)
              THEN Append(contig_coverage, <<r.header, <<run>>>>)
              ELSE DictSet(contig_coverage, r.header,
                           Append(Lookup(contig_coverage, r.header), run)))

\* the value of the minimum coverage option: "auto", a number (in tenths)
\* or the string of a number
CoverageOpt(kind, tenths) == [kind |-> kind, tenths |-> tenths]

\* int(coverage_opt): a float is truncated, the string of a decimal raises
IntOpt(coverage_opt) ==
    IF coverage_opt.kind = "str" /\ coverage_opt.tenths % 10 # 0
    THEN [err |-> "ValueError", v |-> Q(0)]
    ELSE [err |-> "none", v |-> Q(coverage_opt.tenths \div 10)]

\* the automatic threshold: (assembly_coverage / assembly_size) * .3, or 10
AutoMinCoverage(assembly_coverage, assembly_size) ==
    LET min_coverage == Rat(3 * assembly_coverage, 10 * assembly_size)
    IN IF RatLt(min_coverage, Q(10)) THEN Q(10) ELSE min_coverage

evaluate_min_coverage(coverage_opt, assembly_coverage, assembly_size) ==
    IF coverage_opt.kind = "auto"
    THEN IF assembly_size = 0
         THEN [err |-> "ZeroDivisionError", v |-> Q(0)]
         ELSE [err |-> "none",
               v |-> AutoMinCoverage(assembly_coverage, assembly_size)]
    ELSE IntOpt(coverage_opt)

\* the entries of coverage_info with cov >= minimum_coverage
KeptContigs(coverage_info, minimum_coverage) ==
    SelectSeq(coverage_info, LAMBDA e : RatLe(minimum_coverage, Q(e[2].cov)))

\* sum([sum(coverage_bp[x]) for x in entries]), every key being there
TotalBp(coverage_bp, entries) ==
    SumSeq([j \in 1..Len(entries) |->
              LET runs == Lookup(coverage_bp, entries[j][1])
              IN SumSeq([i \in 1..Len(runs) |-> runs[i][1] * runs[i][2]])])

AllKeys(coverage_bp, entries) ==
    \A j \in 1..Len(entries) : HasKey(coverage_bp, entries[j][1])

\* the body of check_filtered_assembly over the contigs kept: the value
\* returned, what .warnings and .report.json are given, or the exception
\* raised
CheckFiltered(coverage_info, coverage_bp, kept, above_t_150, above_contig_threshold, from_t_80) ==
    LET assembly_len == SumSeq([j \in 1..Len(kept) |-> kept[j][2].len])
        ncontigs == Len(kept)
        large == assembly_len > above_t_150
        many == ncontigs > above_contig_threshold
        small == assembly_len < from_t_80
        warn_fh == (IF large THEN <<"large">> ELSE <<>>)
                   \o (IF many THEN <<"contigs">> ELSE <<>>)
                   \o (IF small THEN <<"small">> ELSE <<>>)
        none == [err |-> "KeyError", health |-> TRUE, opened |-> FALSE,
                 assembly_len |-> assembly_len, ncontigs |-> ncontigs,
                 warn_fh |-> <<>>, warnings |-> <<>>, fails |-> NoFail,
                 sparkline |-> 0, json_written |-> FALSE]
    IN IF ~AllKeys(coverage_bp, kept) THEN none
       ELSE IF small /\ ~AllKeys(coverage_bp, coverage_info)
       THEN [none EXCEPT !.opened = TRUE, !.warn_fh = warn_fh]
       ELSE [err |-> "none", health |-> ~small, opened |-> TRUE,
             assembly_len |-> assembly_len, ncontigs |-> ncontigs,
             warn_fh |-> warn_fh,
             warnings |-> IF many THEN <<"excessive_contigs:high">> ELSE <<>>,
             fails |-> IF small THEN Fail("Small_genome_size", assembly_len)
                       ELSE IF large THEN Fail("Large_genome_size", assembly_len)
                       ELSE NoFail,
             sparkline |-> IF small THEN TotalBp(coverage_bp, coverage_info)
                           ELSE TotalBp(coverage_bp, kept),
             json_written |-> TRUE]

\* the ints n above t_150 are those above its floor, and so for the
\* contig_threshold; the ints n below t_80 are those below its ceiling
check_filtered_assembly(coverage_info, coverage_bp, minimum_coverage, gsize10, max_contigs) ==
    CheckFiltered(coverage_info, coverage_bp,
                  KeptContigs(coverage_info, minimum_coverage),
                  FFloor(T150(gsize10)),
                  FFloor(ContigThreshold(max_contigs, gsize10)),
                  FCeil(T80(gsize10)))

\* filter_assembly: the lines written, from line k on
RECURSIVE filter_assembly(_, _, _, _, _)
filter_assembly(assembly_file, minimum_coverage, coverage_info, write_flag, out) ==
    IF assembly_file = <<>> THEN [err |-> "none", out |-> out]
    ELSE LET line == Head(assembly_file)
         IN IF line.header
            THEN IF ~HasKey(coverage_info, line.name)
                 THEN [err |-> "KeyError", out |-> out]
                 ELSE IF RatLe(minimum_coverage,
                               Q(Lookup(coverage_info, line.name).cov))
                      THEN filter_assembly(Tail(assembly_file), minimum_coverage,
                               coverage_info, TRUE, Append(out, line))
                      ELSE filter_assembly(Tail(assembly_file), minimum_coverage,
                               coverage_info, FALSE, out)
            ELSE filter_assembly(Tail(assembly_file), minimum_coverage,
                     coverage_info, write_flag,
                     IF write_flag THEN Append(out, line) ELSE out)

\* filter_bam keeping the contigs above the minimum coverage only
FilterBamAbove(coverage_info, min_coverage, returncode) ==
    LET kept == SelectSeq(coverage_info,
                          LAMBDA e : RatLt(min_coverage, Q(e[2].cov)))
    IN [kind |-> "view",
        contig_list |-> [j \in 1..Len(kept) |-> kept[j][1]],
        index |-> returncode = 0]

\* filter_bam: the regions samtools view is given, the index being made iff
\* view returns 0
filter_bam(coverage_info, min_coverage, returncode) ==
    LET kept == KeptContigs(coverage_info, min_coverage)
    IN [kind |-> "view",
        contig_list |-> [j \in 1..Len(kept) |-> kept[j][1]],
        index |-> returncode = 0]

\* shutil.copy of the BAM file and of its index
CopiedBam == [kind |-> "copy", contig_list |-> <<>>, index |-> TRUE]

\* the contigs of the mapped assemblies: (cov, len)
AmContigPool ==
    { <<300, 100>>, <<10000, 100>>, <<20, 750000>>, <<5, 250000>>,
      <<20, 1000000>>, <<12, 500000>>, <<20, 6150000>>, <<20, 490000>> }

\* most contigs of a mapped assembly
MaxAmContigs == 2

\* the per-base coverage the per-base table gives every base
BpDepth == 2

AmCoverageFile(q) ==
    [k \in 1..Len(q) |-> [contig |-> k, cov |-> q[k][1], len |-> q[k][2]]]

\* the per-base table of the contigs q, the last contig left out if missing
AmCoverageBpFile(q, missing) ==
    [k \in 1..(IF missing /\ Len(q) > 0 THEN Len(q) - 1 ELSE Len(q)) |->
        [header |-> k, coverage |-> BpDepth, n |-> q[k][2]]]

\* an assembly file: a header line and a sequence line for every one of
\* the contigs named
AmAssemblyFile(names) ==
    [k \in 1..(2 * Len(names)) |->
        [header |-> k % 2 = 1, name |-> names[(k + 1) \div 2]]]

\* the contigs an assembly file names for a coverage table of n contigs:
\* those of the table, in its order or not, one of them left out, or one
\* more
AmFastaNames(n) ==
    { [k \in 1..n |-> k], [k \in 1..n |-> n + 1 - k],
      [k \in 1..(n - 1) |-> k], [k \in 1..(n + 1) |-> k] }

\* opts[0]: auto, 15, 12.7, "15", "12.7"
AmCoverageOpts ==
    { CoverageOpt("auto", 0), CoverageOpt("number", 150),
      CoverageOpt("number", 127), CoverageOpt("str", 150),
      CoverageOpt("str", 127) }

\* opts[1]
AmMaxContigs == {1, 3}

\* gsize, in tenths of a Mb
AmGenomeSizes10 == {10, 41, 83}

AmInputs ==
    { [AmIdle EXCEPT !.coverage_file = AmCoverageFile(q),
                     !.coverage_bp_file = AmCoverageBpFile(q, missing),
                     !.assembly_file = AmAssemblyFile(names),
                     !.coverage_opt = o, !.max_contigs = m, !.gsize10 = g] :
        <<q, names>> \in {<<q, names>> \in SeqsUpTo(AmContigPool, MaxAmContigs)
                            \X UNION {AmFastaNames(n) : n \in 0..MaxAmContigs} :
                            names \in AmFastaNames(Len(q))},
        missing \in BOOLEAN,
        o \in AmCoverageOpts, m \in AmMaxContigs, g \in AmGenomeSizes10 }

(***************************************************************************)
(* process_assembly_mapping.py: main                                       *)
(***************************************************************************)
InitAM ==
    /\ prog = "process_assembly_mapping"
    /\ pc = "start"
    /\ am \in AmInputs
    /\ ar = ArIdle
    /\ ic = IcIdle
    /\ sp = SpIdle

\* parse_coverage_table and get_coverage_from_file
AmParse ==
    /\ prog = "process_assembly_mapping"
    /\ pc = "start"
    /\ LET p == parse_coverage_table(am.coverage_file)
       IN am' = [am EXCEPT
                   !.coverage_info = p.coverage_dict,
                   !.a_size = p.total_size, !.a_cov = p.total_cov,
                   !.coverage_bp_data =
                       get_coverage_from_file(am.coverage_bp_file, <<>>)]
    /\ pc' = "min_coverage"
    /\ UNCHANGED <<prog, ar, ic, sp>>

\* min_coverage = evaluate_min_coverage(...); an exception ends main in
\* _log_error
AmEvaluateMinCoverage ==
    /\ prog = "process_assembly_mapping"
    /\ pc = "min_coverage"
    /\ LET r == evaluate_min_coverage(am.coverage_opt, am.a_cov, am.a_size)
       IN IF r.err = "none"
          THEN am' = [am EXCEPT !.min_coverage = r.v] /\ pc' = "check"
          ELSE am' = [am EXCEPT !.err = r.err, !.status = "error"]
               /\ pc' = "done"
    /\ UNCHANGED <<prog, ar, ic, sp>>

\* am after check_filtered_assembly gave c
AmAfterCheck(c) ==
    LET am1 == [am EXCEPT
                  !.assembly_len = c.assembly_len, !.ncontigs = c.ncontigs,
                  !.opened = c.opened, !.warn_fh = c.warn_fh,
                  !.warnings = c.warnings, !.fails = c.fails,
                  !.sparkline = c.sparkline,
                  !.json_written = c.json_written]
    IN IF c.err = "none" THEN [am1 EXCEPT !.checked = TRUE, !.health = c.health]
       ELSE [am1 EXCEPT !.err = c.err, !.status = "error"]

AmCheckFilteredAssembly ==
    /\ prog = "process_assembly_mapping"
    /\ pc = "check"
    /\ am' = AmAfterCheck(check_filtered_assembly(am.coverage_info,
                    am.coverage_bp_data, am.min_coverage, am.gsize10,
                    am.max_contigs))
    /\ pc' = IF am'.err # "none" THEN "done"
             ELSE IF am'.health THEN "filter" ELSE "copy"
    /\ UNCHANGED <<prog, ar, ic, sp>>

\* filter_assembly and filter_bam, then the status
AmFilter ==
    /\ prog = "process_assembly_mapping"
    /\ pc = "filter"
    /\ LET f == filter_assembly(am.assembly_file, am.min_coverage,
                                am.coverage_info, FALSE, <<>>)
       IN IF f.err # "none"
          THEN am' = [am EXCEPT !.filtered_assembly = f.out,
                                !.err = f.err, !.status = "error"]
          ELSE \E returncode \in {0, 1} :
                 am' = [am EXCEPT
                          !.filtered_assembly = f.out,
                          !.filtered_bam = filter_bam(am.coverage_info,
                                               am.min_coverage, returncode),
                          !.status = "pass"]
    /\ pc' = "done"
    /\ UNCHANGED <<prog, ar, ic, sp>>

\* the original assembly and BAM files are copied, then the status
AmCopy ==
    /\ prog = "process_assembly_mapping"
    /\ pc = "copy"
    /\ am' = [am EXCEPT !.filtered_assembly = am.assembly_file,
                        !.filtered_bam = CopiedBam,
                        !.status = "pass"]
    /\ pc' = "done"
    /\ UNCHANGED <<prog, ar, ic, sp>>

NextAM ==
    AmParse \/ AmEvaluateMinCoverage \/ AmCheckFilteredAssembly
        \/ AmFilter \/ AmCopy

SpecAM == InitAM /\ [][NextAM]_vars

\* the two templates that check the size of an assembly
SpecHealth == (InitSpMain \/ InitAM) /\ [][NextSpMain \/ NextAM]_vars

(***************************************************************************)
(* assembly_report.py: _parse_assembly, the sliding windows and main       *)
(*                                                                         *)
(* A header h > 0 is the text "<sample>_NODE_<h>_length_..." that          *)
(* process_spades writes, a header h < 0 the text "NODE_<-h>_length_..."   *)
(* of SPAdes itself, which holds no "_NODE_". Lines keep the white space   *)
(* around their text as runs of " ".                                       *)
(***************************************************************************)
\* s.strip(): the white space before and after the text is dropped
Strip(s) ==
    LET text == {j \in 1..Len(s) : s[j][1] # " "}
    IN IF text = {} THEN <<>>
       ELSE SubSeq(s, CHOOSE j \in text : \A k \in text : j <= k,
                      CHOOSE j \in text : \A k \in text : j >= k)

\* a line ">" + header, with white space after it
ArHeaderLine(h) == [header |-> TRUE, name |-> h, s |-> Rep(" ", 1)]

ArSeqLine(s) == [header |-> FALSE, name |-> 0, s |-> s]

\* the loop with a repeated header keeping what its first record collected
RECURSIVE ArParseLinesAppend(_, _, _)
ArParseLinesAppend(lines, header, contigs) ==
    IF lines = <<>> THEN [contigs |-> contigs, err |-> "none"]
    ELSE LET line == Head(lines)
         IN IF ~line.header /\ Strip(line.s) = <<>>
            THEN ArParseLinesAppend(Tail(lines), header, contigs)
            ELSE IF line.header
            THEN ArParseLinesAppend(Tail(lines), line.name,
                     IF HasKey(contigs, line.name) THEN contigs
                     ELSE DictSet(contigs, line.name, <<>>))
            ELSE IF ~HasKey(contigs, header)
            THEN [contigs |-> contigs, err |-> "KeyError"]
            ELSE ArParseLinesAppend(Tail(lines), header,
                     DictSet(contigs, header,
                             StrCat(Lookup(contigs, header), Strip(line.s))))

\* the loop of Assembly._parse_assembly (assembly_report) over the lines:
\* self.contigs as (header, sequence) pairs and the exception raised, if any
RECURSIVE ArParseLines(_, _, _)
ArParseLines(lines, header, contigs) ==
    IF lines = <<>> THEN [contigs |-> contigs, err |-> "none"]
    ELSE LET line == Head(lines)
         IN IF ~line.header /\ Strip(line.s) = <<>>
            THEN ArParseLines(Tail(lines), header, contigs)
            ELSE IF line.header
            THEN ArParseLines(Tail(lines), line.name,
                              DictSet(contigs, line.name, <<>>))
            ELSE IF ~HasKey(contigs, header)
            THEN [contigs |-> contigs, err |-> "KeyError"]
            ELSE ArParseLines(Tail(lines), header,
                     DictSet(contigs, header,
                             StrCat(Lookup(contigs, header), Strip(line.s))))

\* Assembly._parse_assembly (assembly_report): self.contigs in the shape
\* the other methods read
ar_parse_assembly(assembly_file) ==
    LET p == ArParseLines(assembly_file, NoHeader, <<>>)
    IN [contigs |-> [k \in 1..Len(p.contigs) |->
                        [header |-> p.contigs[k][1], sequence |-> p.contigs[k][2]]],
        err |-> p.err]

\* the lines the assembly files handed to main are made of
ArLinePool ==
    { ArHeaderLine(1), ArHeaderLine(3), ArHeaderLine(0 - 2),
      ArSeqLine(Rep(" ", 2)),
      ArSeqLine(StrCat(Rep(" ", 1), StrCat(Rep("A", 1500),
                    StrCat(Rep("G", 1000), Rep(" ", 1))))),
      ArSeqLine(StrCat(Rep("g", 500), StrCat(Rep("C", 500), Rep("N", 1000)))) }

\* most lines of an assembly file handed to main
MaxArFileLines == 4

ArFiles == SeqsUpTo(ArLinePool, MaxArFileLines)

\* the first n characters of the run-length encoded s
RECURSIVE Take(_, _)
Take(s, n) ==
    IF n <= 0 \/ s = <<>> THEN <<>>
    ELSE IF Head(s)[2] >= n THEN <<(<<Head(s)[1], n>>)>>
    ELSE <<Head(s)>> \o Take(Tail(s), n - Head(s)[2])

\* s without its first n characters
RECURSIVE Drop(_, _)
Drop(s, n) ==
    IF n <= 0 \/ s = <<>> THEN s
    ELSE IF Head(s)[2] > n THEN <<(<<Head(s)[1], Head(s)[2] - n>>)>> \o Tail(s)
    ELSE Drop(Tail(s), n - Head(s)[2])

\* s[i:j]
Slice(s, i, j) == Take(Drop(s, i), j - i)

LowerChar(c) ==
    CASE c = "A" -> "a" [] c = "C" -> "c" [] c = "G" -> "g"
      [] c = "T" -> "t" [] c = "N" -> "n" [] OTHER -> c

\* s.lower()
Lower(s) == [j \in 1..Len(s) |-> <<LowerChar(s[j][1]), s[j][2]>>]

\* "".join(s[k] for k), s being a sequence of strings
RECURSIVE Join(_)
Join(s) == IF s = <<>> THEN <<>> ELSE StrCat(Head(s), Join(Tail(s)))

\* the digits after "NODE_", the "_" before it not asked for
NodeIdAnyNode(header) == IF header > 0 THEN header ELSE 0 - header

\* the group of digits re.search(".*_NODE_([0-9]*)_.*", header) finds; 0
\* when there is no match
NodeId(header) == IF header > 0 THEN header ELSE 0

\* the first loop of _get_window_labels: contig_boundaries and xbars
RECURSIVE Boundaries(_, _, _, _)
Boundaries(contigs, c, window, a) ==
    IF contigs = <<>> THEN a
    ELSE LET len == StrLen(Head(contigs).sequence)
         IN Boundaries(Tail(contigs), c + len, window,
              [contig_boundaries |->
                   DictSet(a.contig_boundaries, Head(contigs).header,
                           <<c, c + len>>),
               xbars |-> Append(a.xbars, Rat(c + len, window))])

\* the inner loop of _get_window_labels for the window starting at i
RECURSIVE LabelLoop(_, _, _)
LabelLoop(i, contig_boundaries, k) ==
    IF k > Len(contig_boundaries) THEN [err |-> "none", labels |-> <<>>]
    ELSE LET contig == contig_boundaries[k][1]
             rg == contig_boundaries[k][2]
         IN IF NodeId(contig) = 0
            THEN [err |-> "AttributeError", labels |-> <<>>]
            ELSE IF rg[1] <= i /\ i < rg[2]
            THEN [err |-> "none", labels |-> << <<NodeId(contig), i>> >>]
            ELSE LabelLoop(i, contig_boundaries, k + 1)

\* the loop of _get_window_labels over range(0, total_len, window)
RECURSIVE Labels(_, _, _, _)
Labels(i, total_len, window, contig_boundaries) ==
    IF i >= total_len THEN [err |-> "none", labels |-> <<>>]
    ELSE LET l == LabelLoop(i, contig_boundaries, 1)
             r == Labels(i + window, total_len, window, contig_boundaries)
         IN IF l.err # "none" THEN l
            ELSE IF r.err # "none" THEN r
            ELSE [err |-> "none", labels |-> l.labels \o r.labels]

\* Assembly._get_window_labels: summary_info is never empty, so
\* get_summary_stats is not called from here
get_window_labels(contigs, summary_info, contig_boundaries, window) ==
    LET b == Boundaries(contigs, 0, window,
                        [contig_boundaries |-> contig_boundaries, xbars |-> <<>>])
        l == Labels(0, summary_info.total_len, window, b.contig_boundaries)
    IN [err |-> l.err, labels |-> l.labels, xbars |-> b.xbars,
        contig_boundaries |-> b.contig_boundaries]

\* Assembly._gc_prop
gc_prop(s, length) == Rat(StrCount(s, "c") + StrCount(s, "g"), length)

\* the loop of get_gc_sliding over range(0, len(complete_seq), window)
RECURSIVE GcWindows(_, _, _)
GcWindows(complete_seq, i, window) ==
    IF i >= StrLen(complete_seq) THEN <<>>
    ELSE LET seq_window == Slice(complete_seq, i, i + window)
         IN <<gc_prop(seq_window, StrLen(seq_window))>>
            \o GcWindows(complete_seq, i + window, window)

\* Assembly.get_gc_sliding
get_gc_sliding(contigs, summary_info, contig_boundaries, window) ==
    LET w == get_window_labels(contigs, summary_info, contig_boundaries, window)
        complete_seq ==
            Lower(Join([k \in 1..Len(contigs) |-> contigs[k].sequence]))
    IN [err |-> w.err, contig_boundaries |-> w.contig_boundaries,
        res |-> IF w.err # "none" THEN <<>> ELSE GcWindows(complete_seq, 0, window),
        labels |-> w.labels, xbars |-> w.xbars]

\* the loop of get_coverage_sliding over range(0, len(complete_cov), window)
RECURSIVE CovWindows(_, _, _)
CovWindows(complete_cov, i, window) ==
    IF i >= StrLen(complete_cov) THEN <<>>
    ELSE LET cov_window == Slice(complete_cov, i, i + window)
         IN <<Rat(SumSeq([j \in 1..Len(cov_window) |->
                            cov_window[j][1] * cov_window[j][2]]),
                  StrLen(cov_window))>>
            \o CovWindows(complete_cov, i + window, window)

\* the per-base coverages of all the contigs of contig_coverage, in a row
RECURSIVE CompleteCov(_)
CompleteCov(contig_coverage) ==
    IF contig_coverage = <<>> THEN <<>>
    ELSE Head(contig_coverage)[2] \o CompleteCov(Tail(contig_coverage))

\* Assembly.get_coverage_sliding: contig_coverage is read from the file when
\* it is empty
get_coverage_sliding(contigs, summary_info, contig_boundaries, contig_coverage, coverage_file, window) ==
    LET cc == IF contig_coverage = <<>>
              THEN get_coverage_from_file(coverage_file, <<>>)
              ELSE contig_coverage
        w == get_window_labels(contigs, summary_info, contig_boundaries, window)
    IN [err |-> w.err, contig_boundaries |-> w.contig_boundaries,
        contig_coverage |-> cc,
        res |-> IF w.err # "none" THEN <<>>
                ELSE CovWindows(CompleteCov(cc), 0, window),
        labels |-> w.labels, xbars |-> w.xbars]

\* the window sizes callers hand to get_gc_sliding
ArWindows == {2, 3}

\* most calls of get_gc_sliding on one Assembly object
MaxSlidingCalls == 1

\* window=2000 of get_gc_sliding and get_coverage_sliding
DefaultWindow == 2000

\* a call of get_gc_sliding(window)
ArGetGcSliding ==
    /\ prog = "assembly_report"
    /\ pc = "ready"
    /\ ar.sliding_calls < MaxSlidingCalls
    /\ \E window \in ArWindows :
         LET r == get_gc_sliding(ar.contigs, ar.summary_info,
                                 ar.contig_boundaries, window)
         IN /\ ar' = [ar EXCEPT
                        !.contig_boundaries = r.contig_boundaries,
                        !.sliding_calls = @ + 1,
                        !.window = window,
                        !.err = r.err,
                        !.gc_sliding = IF r.err = "none"
                                       THEN Sliding(r.res, r.labels, r.xbars)
                                       ELSE @]
            /\ pc' = IF r.err = "none" THEN "ready" ELSE "raised"
    /\ UNCHANGED <<prog, ic, sp, am>>

NextAR == ArGetSummaryStats \/ ArGetGcSliding

SpecAR == InitAR /\ [][NextAR]_vars

\* the per-base table of the contigs: a run for every contig that has bases,
\* the last contig left out if missing
ArCoverageBpFile(contigs, missing) ==
    LET rows == [k \in 1..(IF missing /\ Len(contigs) > 0
                           THEN Len(contigs) - 1 ELSE Len(contigs)) |->
                    [header |-> contigs[k].header, coverage |-> BpDepth + k,
                     n |-> StrLen(contigs[k].sequence)]]
    IN SelectSeq(rows, LAMBDA r : r.n > 0)

\* the rows of a table in the opposite order
Reversed(rows) == [j \in 1..Len(rows) |-> rows[Len(rows) + 1 - j]]

\* main(fastq_id, assembly_file, coverage_bp_file): c says whether
\* coverage_bp_file is given, whether it lacks the last contig and whether
\* its contigs come in the opposite order of the assembly file
ArMainInputs ==
    { [ArIdle EXCEPT !.assembly_file = f, !.has_coverage = c[1],
                     !.coverage_bp_file =
                         IF c[3]
                         THEN Reversed(ArCoverageBpFile(ar_parse_assembly(f).contigs, c[2]))
                         ELSE ArCoverageBpFile(ar_parse_assembly(f).contigs, c[2])] :
        f \in ArFiles,
        c \in {<<FALSE, TRUE, FALSE>>, <<TRUE, FALSE, FALSE>>,
               <<TRUE, TRUE, FALSE>>, <<TRUE, FALSE, TRUE>>} }

InitARMain ==
    /\ prog = "assembly_report_main"
    /\ pc = "start"
    /\ ar \in ArMainInputs
    /\ ic = IcIdle
    /\ sp = SpIdle
    /\ am = AmIdle

\* assembly_obj = Assembly(assembly_file, fastq_id); an exception ends the
\* template in _log_error
ArMainAssembly ==
    /\ prog = "assembly_report_main"
    /\ pc = "start"
    /\ LET p == ar_parse_assembly(ar.assembly_file)
       IN IF p.err = "none"
          THEN ar' = [ar EXCEPT !.contigs = p.contigs] /\ pc' = "summary"
          ELSE ar' = [ar EXCEPT !.contigs = p.contigs, !.err = p.err,
                                !.status = "error"]
               /\ pc' = "done"
    /\ UNCHANGED <<prog, ic, sp, am>>

\* get_summary_stats(csv) and the json_dic built from it
ArMainSummary ==
    /\ prog = "assembly_report_main"
    /\ pc = "summary"
    /\ LET r == get_summary_stats(ar.contigs, ar.summary_info)
       IN IF r.err = "none"
          THEN ar' = [ar EXCEPT !.summary_info = r.si, !.calls = @ + 1,
                                !.csv = SummaryLine(r.si)]
               /\ pc' = "sliding"
          ELSE ar' = [ar EXCEPT !.summary_info = r.si, !.calls = @ + 1,
                                !.err = r.err, !.status = "error"]
               /\ pc' = "done"
    /\ UNCHANGED <<prog, ic, sp, am>>

\* the sliding window data, any exception being logged and dropped
ArMainSliding ==
    /\ prog = "assembly_report_main"
    /\ pc = "sliding"
    /\ IF ~ar.has_coverage THEN ar' = ar
       ELSE LET g == get_gc_sliding(ar.contigs, ar.summary_info,
                                    ar.contig_boundaries, DefaultWindow)
                c == get_coverage_sliding(ar.contigs, ar.summary_info,
                         g.contig_boundaries, ar.contig_coverage,
                         ar.coverage_bp_file, DefaultWindow)
            IN IF g.err # "none"
               THEN ar' = [ar EXCEPT !.contig_boundaries = g.contig_boundaries,
                                     !.logged = g.err]
               ELSE IF c.err # "none"
               THEN ar' = [ar EXCEPT !.contig_boundaries = c.contig_boundaries,
                                     !.contig_coverage = c.contig_coverage,
                                     !.logged = c.err]
               ELSE ar' = [ar EXCEPT
                             !.contig_boundaries = c.contig_boundaries,
                             !.contig_coverage = c.contig_coverage,
                             !.window = DefaultWindow,
                             !.gc_sliding = Sliding(g.res, g.labels, g.xbars),
                             !.cov_sliding = Sliding(c.res, c.labels, c.xbars),
                             !.has_sliding = TRUE,
                             !.sparkline = TotalBp(c.contig_coverage,
                                                   c.contig_coverage)]
    /\ pc' = "write"
    /\ UNCHANGED <<prog, ic, sp, am>>

\* .report.json and .status are written
ArMainWrite ==
    /\ prog = "assembly_report_main"
    /\ pc = "write"
    /\ ar' = [ar EXCEPT
                !.json = [written |-> TRUE,
                          contigs |-> ar.summary_info.ncontigs,
                          assembled_bp |-> ar.summary_info.total_len,
                          size_dist |-> [k \in 1..Len(ar.contigs) |->
                                            StrLen(ar.contigs[k].sequence)],
                          sliding |-> ar.has_sliding],
                !.status = "pass"]
    /\ pc' = "done"
    /\ UNCHANGED <<prog, ic, sp, am>>

NextARMain == ArMainAssembly \/ ArMainSummary \/ ArMainSliding \/ ArMainWrite

SpecARMain == InitARMain /\ [][NextARMain]_vars

(***************************************************************************)
(* Claims on assembly_report.py                                            *)
(***************************************************************************)
\* the contig lengths of the parsed assembly, in file order
ArLengths == [k \in 1..Len(ar.contigs) |-> StrLen(ar.contigs[k].sequence)]

ArTotal == SumSeq(ArLengths)

\* the sum of the lengths that are > l, and of those that are >= l
RECURSIVE SumAbove(_, _, _)
SumAbove(lens, l, strict) ==
    IF lens = <<>> THEN 0
    ELSE (IF Head(lens) > l \/ (~strict /\ Head(lens) = l) THEN Head(lens) ELSE 0)
         + SumAbove(Tail(lens), l, strict)

\* l is the length at which the running sum of the lengths, taken in
\* descending order, first reaches half of their total
IsN50(l, lens) ==
    /\ \E k \in 1..Len(lens) : lens[k] = l
    /\ 2 * SumAbove(lens, l, TRUE) < SumSeq(lens)
    /\ 2 * SumAbove(lens, l, FALSE) >= SumSeq(lens)

FirstSummaryDone == prog = "assembly_report" /\ ar.calls = 1

\* C1 (as stated): for every non-empty list of contig lengths, the first
\* get_summary_stats call sets n50 to the length at which the running sum of
\* the lengths in descending order first reaches half of total_len.
C1_N50AnyLengths ==
    (FirstSummaryDone /\ Len(ar.contigs) > 0)
        => IsN50(ar.summary_info.n50, ArLengths)

\* C1 (amended): the same for every non-empty list of positive contig
\* lengths; the call then completes, and n50 is one of the input lengths.
C1_N50PositiveLengths ==
    (FirstSummaryDone /\ Len(ar.contigs) > 0
        /\ \A k \in 1..Len(ar.contigs) : ArLengths[k] > 0)
        => /\ ar.err = "none"
           /\ ar.summary_info.total_len = ArTotal
           /\ IsN50(ar.summary_info.n50, ArLengths)

\* a first call on three contigs whose n50 is not the largest length
C1_Witness ==
    /\ FirstSummaryDone
    /\ ar.err = "none"
    /\ Len(ar.contigs) = 3
    /\ \E k \in 1..3 : ArLengths[k] > ar.summary_info.n50
    /\ ar.summary_info.n50 > 0

\* C2: a second get_summary_stats call on the same object completes and
\* leaves the six summary values as the first call left them.
C2_SecondCallIdempotent ==
    [][(prog = "assembly_report" /\ ar.calls = 1 /\ ar'.calls = 2)
         => (ar'.err = "none" /\ ar'.summary_info = ar.summary_info)]_vars

(***************************************************************************)
(* Claims on integrity_coverage.py                                         *)
(***************************************************************************)
IcFiles == {"encoding", "phred", "coverage", "report", "max_len"}

\* main has returned (through the normal path or the EOFError handler)
IcDone == prog = "integrity_coverage" /\ pc = "done"

\* C3: if a FastQ stream is truncated (a file ends mid-record, or a
\* compressed stream ends before its end marker), each of the five output
\* files holds exactly the word corrupt.
C3_TruncatedGivesCorrupt ==
    (IcDone /\ ic.truncated)
        => \A f \in IcFiles : ic.out[f] = <<Word("corrupt")>>

\* the candidate encodings of the final bounds (none when no quality line
\* was looked at) and their phred scores
IcCandidates ==
    IF ic.gmax = 0 THEN {}
    ELSE {RANGES[k].encoding : k \in
            {j \in 1..Len(RANGES) : /\ RANGES[j].emin <= ic.gmin
                                    /\ ic.gmax <= RANGES[j].emax}}

IcCandidatePhreds ==
    {RANGES[k].phred : k \in
       {j \in 1..Len(RANGES) : RANGES[j].encoding \in IcCandidates}}

\* C4: the encoding written at the end is decided by the number of candidate
\* encodings of the final bounds: several are written jointly with their
\* phred scores, a single one is written alone with its phred, none gives
\* None for both.
C4_FinalEncodingBySetSize ==
    (IcDone /\ ~ic.eof) =>
        /\ Cardinality(IcCandidates) > 1 =>
             /\ ic.out.encoding = <<Joined(IcCandidates)>>
             /\ ic.out.phred = <<Joined(IcCandidatePhreds)>>
        /\ Cardinality(IcCandidates) = 1 =>
             /\ ic.out.encoding = <<Word(CHOOSE e \in IcCandidates : TRUE)>>
             /\ ic.out.phred # <<Word("None")>>
        /\ Cardinality(IcCandidates) = 0 =>
             /\ ic.out.encoding = <<Word("None")>>
             /\ ic.out.phred = <<Word("None")>>

\* some quality line has been looked at, so encoding and phred are what
\* get_encodings_in_range returned for (gmin, gmax)
IcGuessed == prog = "integrity_coverage" /\ ic.gmax > 0

\* C5 (as stated): for the bounds [33, 74] get_encodings_in_range yields
\* Sanger and Illumina-1.8, with the phred set {33}.
C5_Range33To74IsSangerAndIllumina18 ==
    (IcGuessed /\ ic.gmin = 33 /\ ic.gmax = 74)
        => /\ ToSet(ic.encoding) = {"Sanger", "Illumina-1.8"}
           /\ ToSet(ic.phred) = {33}

\* C5 (amended): a standard is a candidate iff its known range contains the
\* bounds; for [33, 74] that is Illumina-1.8 alone (phred 33), and for
\* [33, 73] Sanger and Illumina-1.8 (phred set {33}).
C5_CandidateIffRangeContainsBounds ==
    IcGuessed =>
        /\ \A k \in 1..Len(RANGES) :
             (\E j \in 1..Len(ic.encoding) : ic.encoding[j] = RANGES[k].encoding)
                <=> (ic.gmin..ic.gmax) \subseteq (RANGES[k].emin..RANGES[k].emax)
        /\ Len(ic.phred) = Len(ic.encoding)
        /\ ToSet(ic.phred) = IcCandidatePhreds
        /\ (ic.gmin = 33 /\ ic.gmax = 74) =>
              (ic.encoding = <<"Illumina-1.8">> /\ ic.phred = <<33>>)
        /\ (ic.gmin = 33 /\ ic.gmax = 73) =>
              /\ ToSet(ic.encoding) = {"Sanger", "Illumina-1.8"}
              /\ ToSet(ic.phred) = {33}

\* the bounds [33, 74] have been observed
C5_Witness ==
    /\ IcGuessed
    /\ ic.gmin = 33
    /\ ic.gmax = 74
    /\ ic.encoding = <<"Illumina-1.8">>

\* C6: the coverage estimate is chars / (gsize * 1e6) to the nearest
\* hundredth; the sample passes iff the estimate >= minimum_coverage; the
\* coverage file holds the estimate on a pass and the word fail otherwise.
\* 1,000,000 characters at 2.0 Mb and minimum 10 give 0.5 and fail;
\* 30,000,000 give 15.0, written as the number.  The quotient is rounded
\* as the float it is: 10,000 characters give 0.01 (the float 0.005 is above
\* 0.005) and 19,990,000 give 9.99 (the float 9.995 is below 9.995), which
\* fails a minimum of 10.
C6_CoverageEstimate ==
    (IcDone /\ ~ic.eof) =>
        LET h == ic.out.report[1].num
            perHundredth == ic.gsize10 * 1000
            pass == h >= 100 * ic.minimum_coverage
        IN /\ Len(ic.out.report) = 1
           /\ 2 * Abs(ic.chars - h * perHundredth) <= perHundredth
           /\ ic.out.report[1].kind = (IF pass THEN "PASS" ELSE "FAIL")
           /\ ic.out.coverage = <<IF pass THEN Number(h) ELSE Word("fail")>>
           /\ (ic.chars = 1000000 /\ ic.gsize10 = 20 /\ ic.minimum_coverage = 10)
                 => (h = 50 /\ ic.out.coverage = <<Word("fail")>>)
           /\ (ic.chars = 30000000 /\ ic.gsize10 = 20 /\ ic.minimum_coverage = 10)
                 => (h = 1500 /\ ic.out.coverage = <<Number(1500)>>)
           /\ (ic.chars = 10000 /\ ic.gsize10 = 20) => h = 1
           /\ (ic.chars = 1010000 /\ ic.gsize10 = 20) => h = 51
           /\ (ic.chars = 19990000 /\ ic.gsize10 = 20 /\ ic.minimum_coverage = 10)
                 => (h = 999 /\ ic.out.coverage = <<Word("fail")>>)

\* 19,990,000 characters at 2.0 Mb and minimum 10: the estimate, half way
\* between 9.99 and 10.0, is written as 9.99 and fails
C6_WitnessTie ==
    /\ IcDone
    /\ ~ic.eof
    /\ ic.chars = 19990000
    /\ ic.gsize10 = 20
    /\ ic.minimum_coverage = 10
    /\ ic.out.report[1].num = 999
    /\ ic.out.coverage = <<Word("fail")>>

\* 30,000,000 characters at 2.0 Mb and minimum 10: the estimate 15.0 passes
C6_Witness ==
    /\ IcDone
    /\ ~ic.eof
    /\ ic.chars = 30000000
    /\ ic.gsize10 = 20
    /\ ic.minimum_coverage = 10
    /\ ic.out.coverage = <<Number(1500)>>

(***************************************************************************)
(* Claims on process_assembly_mapping.py and process_spades.py             *)
(***************************************************************************)
\* evaluate_min_coverage has returned or raised
AmEvaluated ==
    prog = "process_assembly_mapping" /\ pc \notin {"start", "min_coverage"}

\* max(10, (total_coverage / total_length) * 0.3)
C7Auto(total_coverage, total_length) ==
    IF 3 * total_coverage < 100 * total_length
    THEN <<10, 1>>
    ELSE Rat(3 * total_coverage, 10 * total_length)

\* C7: evaluate_min_coverage with option 'auto' returns
\* max(10, (total_coverage / total_length) * 0.3) (300 and 100 give 10,
\* 10000 and 100 give 30); with a numeric option it returns that value,
\* whatever the coverage and the length.
C7_MinCoverageFromOption ==
    AmEvaluated =>
        IF am.coverage_opt.kind = "auto"
        THEN am.a_size > 0 =>
               /\ am.err \notin {"ValueError", "ZeroDivisionError"}
               /\ am.min_coverage = C7Auto(am.a_cov, am.a_size)
               /\ (am.a_cov = 300 /\ am.a_size = 100 => am.min_coverage = <<10, 1>>)
               /\ (am.a_cov = 10000 /\ am.a_size = 100 => am.min_coverage = <<30, 1>>)
        ELSE /\ am.err \notin {"ValueError", "ZeroDivisionError"}
             /\ am.min_coverage = Rat(am.coverage_opt.tenths, 10)

\* a filter_contigs call has been made on the parsed assembly
SpFiltered ==
    prog \in {"spades_assembly", "process_spades"} /\ sp.ncalls >= 1
        /\ sp.err = "none"

\* the rule r holds of the contig c
RuleHolds(c, r) ==
    LET x == IF r.key = "length" THEN <<c.length, 1>>
             ELSE IF r.key = "kmer_cov" THEN <<c.kmer_cov, 1>>
             ELSE c.gc_prop
        y == r.value
    IN IF r.op = ">" THEN x[1] * y[2] > y[1] * x[2]
       ELSE IF r.op = "<" THEN x[1] * y[2] < y[1] * x[2]
       ELSE IF r.op = ">=" THEN x[1] * y[2] >= y[1] * x[2]
       ELSE x[1] * y[2] <= y[1] * x[2]

\* the rules of sp.filters the contig c fails
Failing(c) == {j \in 1..Len(sp.filters) : ~RuleHolds(c, sp.filters[j])}

FirstFailing(c) == CHOOSE j \in Failing(c) : \A k \in Failing(c) : j <= k

InFilteredIds(c) == \E j \in 1..Len(sp.filtered_ids) : sp.filtered_ids[j] = c.contig_id

\* the rules evaluated for the contig c, in the order of evaluation
TestedRules(c) ==
    LET t == SelectSeq(sp.tested, LAMBDA e : e[1] = c.contig_id)
    IN [j \in 1..Len(t) |-> t[j][2]]

\* C8: filter_contigs applies the active rules to each contig in order: a
\* contig is rejected iff at least one rule fails; its reason is the first
\* failing rule, as key/value/threshold; no rule after the first failing
\* one is evaluated; a contig failing no rule is reported as pass.
C8_FirstFailingRuleRecorded ==
    SpFiltered =>
      \A i \in 1..Len(sp.contigs) :
        LET c == sp.contigs[i]
        IN /\ InFilteredIds(c) <=> Failing(c) # {}
           /\ HasKey(sp.report, c.contig_id)
           /\ IF Failing(c) # {}
              THEN LET r == sp.filters[FirstFailing(c)]
                   IN /\ Lookup(sp.report, c.contig_id) =
                           [key |-> r.key,
                            value |-> IF r.key = "length" THEN <<c.length, 1>>
                                      ELSE IF r.key = "kmer_cov"
                                      THEN <<c.kmer_cov, 1>> ELSE c.gc_prop,
                            threshold |-> r.value]
                      /\ TestedRules(c) = [j \in 1..FirstFailing(c) |-> j]
              ELSE /\ Lookup(sp.report, c.contig_id).key = "pass"
                   /\ TestedRules(c) = [j \in 1..Len(sp.filters) |-> j]

\* a call with three caller rules: one contig fails the first of them (and
\* would pass none of the later ones being tested), another passes all five
C8_Witness ==
    /\ prog = "spades_assembly"
    /\ sp.ncalls = 2
    /\ sp.err = "none"
    /\ Len(sp.filters) = 5
    /\ \E i, k \in 1..Len(sp.contigs) :
         /\ Failing(sp.contigs[i]) = {1, 2}
         /\ Lookup(sp.report, sp.contigs[i].contig_id).key = "length"
         /\ TestedRules(sp.contigs[i]) = <<1>>
         /\ Failing(sp.contigs[k]) = {}
         /\ Lookup(sp.report, sp.contigs[k].contig_id).key = "pass"

\* C9: for every rule set of the caller, filter_contigs appends the rules
\* gc_prop >= 0.05 and gc_prop <= 1 - 0.05 after the caller's rules, so
\* after any call every kept contig has 0.05 <= gc_prop <= 0.95.
C9_GcRulesAlwaysAppended ==
    SpFiltered =>
      /\ sp.filters = sp.comparisons
            \o << [key |-> "gc_prop", op |-> ">=", value |-> <<1, 20>>],
                  [key |-> "gc_prop", op |-> "<=", value |-> <<19, 20>>] >>
      /\ \A i \in 1..Len(sp.contigs) :
           ~InFilteredIds(sp.contigs[i]) =>
               /\ 20 * sp.contigs[i].gc >= sp.contigs[i].length
               /\ 20 * sp.contigs[i].gc <= 19 * sp.contigs[i].length

\* a call with no caller rule: a contig with gc_prop above 0.95 is rejected
\* for it, one with gc_prop 0.05 is kept
C9_Witness ==
    /\ prog = "spades_assembly"
    /\ sp.ncalls = 2
    /\ sp.comparisons = <<>>
    /\ \E i, k \in 1..Len(sp.contigs) :
         /\ sp.contigs[i].gc = sp.contigs[i].length
         /\ InFilteredIds(sp.contigs[i])
         /\ 20 * sp.contigs[k].gc = sp.contigs[k].length
         /\ ~InFilteredIds(sp.contigs[k])

\* the same after the retry of main, made with the length rule alone
C9_WitnessRetry ==
    /\ prog = "process_spades"
    /\ sp.ncalls = 2
    /\ Len(sp.comparisons) = 1
    /\ \E i \in 1..Len(sp.contigs) :
         /\ Lookup(sp.report, sp.contigs[i].contig_id).key = "gc_prop"
         /\ InFilteredIds(sp.contigs[i])

\* filtered_length < G x 1e6 x 0.8, G being gsize10 / 10
TooSmall(filtered_length, gsize10) == 100 * filtered_length < 8 * gsize10 * 1000000

\* filtered_length < gsize * 1000000 * 0.8 with the product taken as the
\* float it is: for the sizes 1.0 and 4.1 it is the exact product, for 8.3
\* it is 6640000.000000001
BelowT80(filtered_length, gsize10) ==
    \/ TooSmall(filtered_length, gsize10)
    \/ gsize10 = 83 /\ filtered_length = 6640000

\* the length of the contigs of the coverage table with cov >= min_coverage
AmFilteredLength ==
    SumSeq([k \in 1..Len(am.coverage_file) |->
              IF am.min_coverage[1] <= am.coverage_file[k].cov * am.min_coverage[2]
              THEN am.coverage_file[k].len ELSE 0])

AmFilteredCount ==
    Cardinality({k \in 1..Len(am.coverage_file) :
        am.min_coverage[1] <= am.coverage_file[k].cov * am.min_coverage[2]})

\* check_filtered_assembly has returned
AmChecked == prog = "process_assembly_mapping" /\ am.checked

\* main of process_spades is past its check against 80%
SpSizeChecked ==
    prog = "process_spades" /\ pc \in {"large", "contigs", "write", "done"}
        /\ sp.status # "error"

\* C10 as it is stated: the health check fails (check_filtered_assembly
\* returns False, a Small_genome_size failure reason is recorded) iff
\* filtered_length is below G x 1e6 x 0.8; a filtered_length of G x 1e6
\* with the contig count below its threshold passes with no warning and no
\* failure reason.
C10_FailsIffBelow80 ==
    /\ AmChecked =>
         /\ am.assembly_len = AmFilteredLength
         /\ ~am.health <=> TooSmall(AmFilteredLength, am.gsize10)
         /\ am.fails.kind = "Small_genome_size"
               <=> TooSmall(AmFilteredLength, am.gsize10)
         /\ (/\ AmFilteredLength * 10 = am.gsize10 * 1000000
             /\ 15 * AmFilteredCount < am.max_contigs * am.gsize10)
               => /\ am.health
                  /\ am.warnings = <<>> /\ am.warn_fh = <<>>
                  /\ am.fails.kind = "None"
    /\ SpSizeChecked =>
         /\ sp.assembly_len = get_assembly_length(sp.contigs, sp.filtered_ids)
         /\ sp.fails.kind = "Small_genome_size"
               <=> TooSmall(sp.assembly_len, sp.gsize10)
         /\ (/\ pc = "done"
             /\ sp.assembly_len * 10 = sp.gsize10 * 1000000
             /\ 15 * Len(sp.contigs) < sp.max_contigs * sp.gsize10)
               => /\ sp.warnings = <<>> /\ sp.warn_fh = <<>>
                  /\ sp.fails.kind = "None"
                  /\ sp.status = "pass"

\* C10, with the threshold the templates compare with: the health check
\* fails (check_filtered_assembly returns False, a Small_genome_size
\* failure reason is recorded) iff filtered_length is below the float
\* G * 1000000 * 0.8, which is above the exact product for G = 8.3, where a
\* filtered length of exactly 80% fails; every length below 80% fails; a
\* filtered_length of G x 1e6 with the contig count below its threshold
\* passes with no warning and no failure reason.
C10_FailsIffBelowFloat80 ==
    /\ AmChecked =>
         /\ am.assembly_len = AmFilteredLength
         /\ ~am.health <=> BelowT80(AmFilteredLength, am.gsize10)
         /\ am.fails.kind = "Small_genome_size"
               <=> BelowT80(AmFilteredLength, am.gsize10)
         /\ TooSmall(AmFilteredLength, am.gsize10) => ~am.health
         /\ (/\ AmFilteredLength * 10 = am.gsize10 * 1000000
             /\ 15 * AmFilteredCount < am.max_contigs * am.gsize10)
               => /\ am.health
                  /\ am.warnings = <<>> /\ am.warn_fh = <<>>
                  /\ am.fails.kind = "None"
    /\ SpSizeChecked =>
         /\ sp.assembly_len = get_assembly_length(sp.contigs, sp.filtered_ids)
         /\ sp.fails.kind = "Small_genome_size"
               <=> BelowT80(sp.assembly_len, sp.gsize10)
         /\ (/\ pc = "done"
             /\ sp.assembly_len * 10 = sp.gsize10 * 1000000
             /\ 15 * Len(sp.contigs) < sp.max_contigs * sp.gsize10)
               => /\ sp.warnings = <<>> /\ sp.warn_fh = <<>>
                  /\ sp.fails.kind = "None"
                  /\ sp.status = "pass"

\* a filtered length of exactly 80% of 8.3 Mb has failed the check of
\* check_filtered_assembly
C10_WitnessEdge ==
    /\ AmChecked
    /\ am.gsize10 = 83
    /\ am.assembly_len = 6640000
    /\ ~am.health
    /\ am.fails = [kind |-> "Small_genome_size", len |-> 6640000]

\* and so in main of process_spades, after its second filtering
C10_WitnessSpadesEdge ==
    /\ SpSizeChecked /\ pc = "done"
    /\ sp.gsize10 = 83
    /\ sp.assembly_len = 6640000
    /\ sp.ncalls = 2
    /\ sp.fails = [kind |-> "Small_genome_size", len |-> 6640000]

\* a filtered length of 0.75 x G x 1e6 has failed the check of
\* check_filtered_assembly
C10_Witness ==
    /\ AmChecked
    /\ am.assembly_len * 100 = 75 * am.gsize10 * 100000
    /\ ~am.health
    /\ am.fails = [kind |-> "Small_genome_size", len |-> am.assembly_len]

\* a filtered length of G x 1e6 has passed it with no warning
C10_WitnessPass ==
    /\ AmChecked
    /\ am.assembly_len * 10 = am.gsize10 * 1000000
    /\ am.health /\ am.warnings = <<>> /\ am.fails.kind = "None"

\* the same two cases in main of process_spades
C10_WitnessSpades ==
    /\ SpSizeChecked /\ pc = "done"
    /\ sp.assembly_len * 100 = 75 * sp.gsize10 * 100000
    /\ sp.fails.kind = "Small_genome_size"

C10_WitnessSpadesPass ==
    /\ SpSizeChecked /\ pc = "done"
    /\ sp.assembly_len * 10 = sp.gsize10 * 1000000
    /\ sp.fails.kind = "None" /\ sp.warnings = <<>>

\* filtered_length > G x 1e6 x 1.5, G being gsize10 / 10
TooLarge(filtered_length, gsize10) == 100 * filtered_length > 15 * gsize10 * 1000000

\* filtered_length > gsize * 1000000 * 1.5 with the product taken as the
\* float it is: for the size 1.0 it is the exact product, for 4.1 it is
\* 6149999.999999999, and for 8.3 it is 12450000.000000002, which no int
\* lies between and the exact product
AboveT150(filtered_length, gsize10) ==
    \/ TooLarge(filtered_length, gsize10)
    \/ gsize10 = 41 /\ filtered_length = 6150000

InSeq(x, s) == \E j \in 1..Len(s) : s[j] = x

\* C11: when filtered_length > G x 1e6 x 1.5 the verdict is not fatal: the
\* assembly still passes, and the oversize condition is reported as a
\* warning, not as the failure reason of the verdict.
C11_OversizeIsWarningOnly ==
    /\ (AmChecked /\ TooLarge(AmFilteredLength, am.gsize10)) =>
          /\ am.health
          /\ InSeq("large", am.warn_fh)
          /\ am.fails.kind = "None"
    /\ (SpSizeChecked /\ pc = "done" /\ TooLarge(sp.assembly_len, sp.gsize10)) =>
          /\ sp.status = "pass"
          /\ InSeq("large", sp.warn_fh)
          /\ sp.fails.kind = "None"

\* the contigs of the parsed assembly that are not in filtered_ids
SpFilteredCount ==
    Cardinality({i \in 1..Len(sp.contigs) : ~InFilteredIds(sp.contigs[i])})

\* count > max_contigs x G / 1.5, G being gsize10 / 10
TooManyContigs(count, max_contigs, gsize10) == 15 * count > max_contigs * gsize10

\* C12: the excessive-contig warning is raised iff the number of contigs
\* remaining after filtering exceeds max_contigs x G / 1.5, whatever the
\* two size checks give, also when the assembly fails as too small.
C12_ContigWarningOnFilteredCount ==
    /\ AmChecked =>
          (am.warnings # <<>> /\ InSeq("contigs", am.warn_fh))
             <=> TooManyContigs(AmFilteredCount, am.max_contigs, am.gsize10)
    /\ (SpSizeChecked /\ pc \in {"write", "done"}) =>
          (sp.warnings # <<>> /\ InSeq("contigs", sp.warn_fh))
             <=> TooManyContigs(SpFilteredCount, sp.max_contigs, sp.gsize10)

(***************************************************************************)
(* Claims on the FASTA parsers                                             *)
(***************************************************************************)
\* the two parsers under their callers
SpecParsers == (InitARMain \/ InitSpObject \/ InitSpMain) /\ [][NextARMain \/ NextSpObject \/ NextSpMain]_vars

\* the file holds a line with text that no header line precedes
Headless(file) ==
    \E j \in 1..Len(file) :
        /\ ~file[j].header
        /\ Strip(file[j].s) # <<>>
        /\ \A k \in 1..(j - 1) : ~file[k].header

\* C13: a sequence line that comes before any header line makes both
\* parsers raise: assembly_report ends with KeyError and no record, and
\* process_spades ends with an exception, no record without a header made
C13_SequenceBeforeHeaderRaises ==
    /\ (prog = "assembly_report_main" /\ pc # "start"
           /\ Headless(ar.assembly_file))
        => (ar.err = "KeyError" /\ ar.contigs = <<>>
              /\ pc = "done" /\ ar.status = "error")
    /\ (prog \in {"spades_assembly", "process_spades"} /\ pc # "start"
           /\ Headless(sp.assembly_file))
        => (sp.err # "none"
              /\ \A k \in 1..Len(sp.contigs) : sp.contigs[k].header # NoHeader)

\* main has built the Assembly object of assembly_report from the file
ArParsed == prog = "assembly_report_main" /\ pc # "start" /\ ar.err # "KeyError"

\* the header lines of the file, by line number
HeaderLines(file) == {j \in 1..Len(file) : file[j].header}

\* the lines from line j up to the next header line, stripped and joined
RECURSIVE TextFrom(_, _)
TextFrom(file, j) ==
    IF j > Len(file) \/ file[j].header THEN <<>>
    ELSE StrCat(Strip(file[j].s), TextFrom(file, j + 1))

\* the identifiers of the header lines from line j on, each at its first
\* appearance, seen being those of the lines before
RECURSIVE FirstAppearances(_, _, _)
FirstAppearances(file, j, seen) ==
    IF j > Len(file) THEN <<>>
    ELSE IF file[j].header /\ file[j].name \notin seen
    THEN <<file[j].name>> \o FirstAppearances(file, j + 1, seen \cup {file[j].name})
    ELSE FirstAppearances(file, j + 1, seen)

\* C14 as stated: every header line has its identifier mapped to the text
\* of the lines between it and the next header line, one record a header
\* line, in the order of the lines
C14_EveryHeaderLineMapped ==
    ArParsed =>
        LET file == ar.assembly_file
        IN /\ \A p \in HeaderLines(file) :
                \E k \in 1..Len(ar.contigs) :
                    /\ ar.contigs[k].header = file[p].name
                    /\ ar.contigs[k].sequence = TextFrom(file, p + 1)
           /\ [k \in 1..Len(ar.contigs) |-> ar.contigs[k].header]
                = FirstAppearances(file, 1, {})

\* C14, amended: every identifier is held once, in order of first
\* appearance, mapped to the stripped non-blank lines that follow its LAST
\* header line up to the next header line, joined in order
C14_LastHeaderLineMapped ==
    ArParsed =>
        LET file == ar.assembly_file
        IN /\ [k \in 1..Len(ar.contigs) |-> ar.contigs[k].header]
                = FirstAppearances(file, 1, {})
           /\ \A k \in 1..Len(ar.contigs) :
                LET last == CHOOSE p \in HeaderLines(file) :
                                /\ file[p].name = ar.contigs[k].header
                                /\ \A q \in HeaderLines(file) :
                                       file[q].name = file[p].name => q <= p
                IN ar.contigs[k].sequence = TextFrom(file, last + 1)

\* a parsed file with a repeated header, blank lines and padded lines
C14_Witness ==
    /\ ArParsed
    /\ Len(ar.contigs) = 1
    /\ ar.contigs[1].sequence # <<>>
    /\ Len(ar.assembly_file) = 4
    /\ ar.assembly_file[1].header /\ ar.assembly_file[3].header
    /\ ar.assembly_file[2].s # Strip(ar.assembly_file[2].s)
    /\ ar.assembly_file[2].s # ar.assembly_file[4].s

\* a parsed file with two records, a blank line within the first
C14_WitnessBlank ==
    /\ ArParsed
    /\ Len(ar.contigs) = 2
    /\ Len(ar.assembly_file) = 4
    /\ ~ar.assembly_file[2].header /\ Strip(ar.assembly_file[2].s) = <<>>
    /\ ar.contigs[1].sequence # <<>>

(***************************************************************************)
(* Claims on the per-base depth table                                      *)
(***************************************************************************)
\* the two readers of the per-base depth table
SpecDepth == (InitARMain \/ InitAM) /\ [][NextARMain \/ NextAM]_vars

\* the header has a row in the per-base table
InDepthTable(file, header) == \E j \in 1..Len(file) : file[j].header = header

\* the contigs of assembly_report that have bases and no row in the table
ArMissing ==
    {k \in 1..Len(ar.contigs) :
        /\ StrLen(ar.contigs[k].sequence) > 0
        /\ ~InDepthTable(ar.coverage_bp_file, ar.contigs[k].header)}

\* main of assembly_report is past the sliding window step, the window
\* labels having been found
ArCoverageComputed ==
    /\ prog = "assembly_report_main"
    /\ pc \in {"write", "done"}
    /\ ar.status # "error"
    /\ ar.has_coverage
    /\ ar.logged # "AttributeError"

\* the contigs process_assembly_mapping keeps that have no row in the table
AmMissingKept ==
    {k \in 1..Len(am.coverage_file) :
        /\ am.min_coverage[1] <= am.coverage_file[k].cov * am.min_coverage[2]
        /\ ~InDepthTable(am.coverage_bp_file, am.coverage_file[k].contig)}

\* C15: a contig without rows in the per-base depth table makes the
\* coverage computation raise KeyError: get_coverage_sliding gives no
\* track, and check_filtered_assembly no verdict
C15_MissingDepthRaisesKeyError ==
    /\ (ArCoverageComputed /\ ArMissing # {})
        => (ar.logged = "KeyError" /\ ~ar.has_sliding)
    /\ (prog = "process_assembly_mapping" /\ pc \in {"filter", "copy", "done"}
           /\ am.err \in {"none", "KeyError"} /\ AmMissingKept # {})
        => (am.err = "KeyError" /\ ~am.checked)

(***************************************************************************)
(* Claims on the errors of assembly_report                                 *)
(***************************************************************************)
\* main of assembly_report has ended
ArMainDone == prog = "assembly_report_main" /\ pc = "done"

\* the absolute position the k-th contig starts at
ArStart(k) == SumSeq([j \in 1..(k - 1) |-> StrLen(ar.contigs[j].sequence)])

\* the start of the last window of the default size
ArLastWindow == ((ArTotal - 1) \div DefaultWindow) * DefaultWindow

\* the label extraction meets a header that holds no "_NODE_<n>_": some
\* window starts in a contig with such a header, or after it
BadHeaderReached ==
    /\ ar.has_coverage
    /\ ArTotal > 0
    /\ \E k \in 1..Len(ar.contigs) :
          ar.contigs[k].header < 0 /\ ArStart(k) <= ArLastWindow

\* C16 as stated: a sequence line without header, or a header without
\* "_NODE_<n>_" met by the label extraction, ends the run with the status
\* "error"
C16_ExtractionErrorsGiveErrorStatus ==
    ArMainDone =>
        /\ Headless(ar.assembly_file) => ar.status = "error"
        /\ BadHeaderReached => ar.status = "error"

\* C16, amended: the status is "error" exactly when the constructor or
\* get_summary_stats raised, as a sequence line without header makes the
\* constructor do; an exception of the sliding window step is logged, the
\* report is written without the sliding window data and the status is
\* "pass"
C16_SlidingErrorsAreLogged ==
    ArMainDone =>
        /\ ar.status \in {"error", "pass"}
        /\ ar.status = "error" <=> ar.err # "none"
        /\ Headless(ar.assembly_file) => ar.err = "KeyError"
        /\ ar.status = "error" => ~ar.json.written /\ ar.logged = "none"
        /\ ar.status = "pass" => ar.json.written
        /\ (ar.status = "pass" /\ BadHeaderReached)
             => /\ ar.logged = "AttributeError"
                /\ ~ar.json.sliding
        /\ (ar.status = "pass" /\ ar.has_coverage /\ ~BadHeaderReached)
             => ar.logged = "none" /\ ar.json.sliding

\* a run whose label extraction met a header without "_NODE_<n>_"
C16_Witness ==
    /\ ArMainDone
    /\ BadHeaderReached
    /\ ar.logged = "AttributeError"
    /\ ar.status = "pass"

\* a run ended by a sequence line without header
C16_WitnessParse ==
    /\ ArMainDone
    /\ Headless(ar.assembly_file)
    /\ ar.status = "error"

(***************************************************************************)
(* Claims on the GC proportion                                             *)
(***************************************************************************)
\* the two summaries of a contig's bases under their callers
SpecGC == (InitAR \/ InitSpObject) /\ [][NextAR \/ NextSpObject]_vars

\* the characters of s that are among chars, counted run by run
CountOf(s, chars) ==
    SumSeq([j \in 1..Len(s) |-> IF s[j][1] \in chars THEN s[j][2] ELSE 0])

InUnit(v) == RatLe(Q(0), v) /\ RatLe(v, Q(1))

OnlyN(s) == s # <<>> /\ \A j \in 1..Len(s) : s[j][1] = "N"

\* C17: the GC proportion of a non-empty sequence is the share of its
\* upper case G and C, within [0, 1]; missing_data counts the upper case N;
\* a sequence of N alone has GC proportion 0 and missing_data its length
C17_GcProportionInUnitInterval ==
    /\ (prog = "assembly_report" /\ ar.calls = 1) =>
          /\ \A j \in 1..Len(ar.summary_info.avg_gc.v) :
                InUnit(ar.summary_info.avg_gc.v[j])
          /\ (ar.summary_info.avg_gc.t = "list") =>
                \A j \in 1..Len(ar.summary_info.avg_gc.v) :
                    LET sequence == ar.contigs[j].sequence
                    IN /\ ar.summary_info.avg_gc.v[j][1] * StrLen(sequence)
                            = CountOf(sequence, {"G", "C"})
                                * ar.summary_info.avg_gc.v[j][2]
                       /\ OnlyN(sequence) => ar.summary_info.avg_gc.v[j][1] = 0
          /\ (ar.err = "none" /\ Len(ar.contigs) = 1) =>
                ar.summary_info.avg_gc.v[1][1] * StrLen(ar.contigs[1].sequence)
                  = CountOf(ar.contigs[1].sequence, {"G", "C"})
                      * ar.summary_info.avg_gc.v[1][2]
          /\ ar.err = "none" =>
                ar.summary_info.missing_data
                  = SumSeq([k \in 1..Len(ar.contigs) |->
                              CountOf(ar.contigs[k].sequence, {"N"})])
          /\ (ar.err = "none"
                /\ \A k \in 1..Len(ar.contigs) : OnlyN(ar.contigs[k].sequence)) =>
                /\ ar.summary_info.avg_gc.v[1][1] = 0
                /\ ar.summary_info.missing_data = ArTotal
    /\ (prog = "spades_assembly" /\ pc # "start") =>
          \A k \in 1..Len(sp.contigs) :
             LET contig == sp.contigs[k]
             IN /\ InUnit(contig.gc_prop)
                /\ contig.gc_prop[1] * contig.length
                     = CountOf(contig.sequence, {"G", "C"}) * contig.gc_prop[2]
                /\ OnlyN(contig.sequence) =>
                     contig.gc_prop[1] = 0 /\ contig.n = contig.length

\* the summary of an assembly made of one contig of N alone
C17_Witness ==
    /\ prog = "assembly_report"
    /\ ar.calls = 1
    /\ ar.err = "none"
    /\ Len(ar.contigs) = 1
    /\ OnlyN(ar.contigs[1].sequence)
    /\ ar.summary_info.missing_data = 4

\* the summary of a contig with lower case g and upper case C and N
C17_WitnessCase ==
    /\ prog = "assembly_report"
    /\ ar.calls = 1
    /\ ar.err = "none"
    /\ Len(ar.contigs) = 1
    /\ CountOf(ar.contigs[1].sequence, {"g"}) > 0
    /\ ar.summary_info.avg_gc.v[1] = <<1, 3>>

\* a SPAdes contig of N alone
C17_WitnessSpades ==
    /\ prog = "spades_assembly"
    /\ pc # "start"
    /\ \E k \in 1..Len(sp.contigs) : OnlyN(sp.contigs[k].sequence)

(***************************************************************************)
(* Claims on the way the rules of filter_contigs combine                   *)
(***************************************************************************)
\* the contigs of the file that hold every rule of sp.filters, as
\* (header, sequence) pairs in file order
RECURSIVE HoldingAll(_)
HoldingAll(contigs) ==
    IF contigs = <<>> THEN <<>>
    ELSE (IF Failing(Head(contigs)) = {}
          THEN << <<Head(contigs).header, Head(contigs).sequence>> >>
          ELSE <<>>)
         \o HoldingAll(Tail(contigs))

\* C18 as stated: the rules combine with OR semantics, a contig being
\* excluded only if every rule fails and kept if any single rule holds
C18_ExcludedOnlyIfEveryRuleFails ==
    SpFiltered =>
      \A i \in 1..Len(sp.contigs) :
        InFilteredIds(sp.contigs[i])
          <=> Failing(sp.contigs[i]) = 1..Len(sp.filters)

\* C18, amended: the rules combine with AND semantics and no other: a
\* contig is kept only if every rule holds and excluded if any single rule
\* fails, and main writes the contigs that hold every rule
C18_KeptOnlyIfEveryRuleHolds ==
    /\ SpFiltered =>
          \A i \in 1..Len(sp.contigs) :
            (~InFilteredIds(sp.contigs[i]))
              <=> \A j \in 1..Len(sp.filters) :
                     RuleHolds(sp.contigs[i], sp.filters[j])
    /\ (prog = "process_spades" /\ pc = "done" /\ sp.status = "pass") =>
          sp.output_assembly = HoldingAll(sp.contigs)

\* a contig excluded though it holds some of the rules, the caller having
\* handed three of them
C18_Witness ==
    /\ SpFiltered
    /\ sp.ncalls = 2
    /\ Len(sp.filters) = 5
    /\ \E i \in 1..Len(sp.contigs) :
         /\ InFilteredIds(sp.contigs[i])
         /\ Failing(sp.contigs[i]) # {}
         /\ Failing(sp.contigs[i]) # 1..Len(sp.filters)

(***************************************************************************)
(* Claims on repeated calls of filter_contigs                              *)
(***************************************************************************)
\* the rules of a call handed the rule set comparisons
RulesOf(comparisons) ==
    comparisons \o << [key |-> "gc_prop", op |-> ">=", value |-> <<1, 20>>],
                      [key |-> "gc_prop", op |-> "<=", value |-> <<19, 20>>] >>

\* the ids of the contigs that fail one of the rules, in file order
RECURSIVE RejectedIds(_, _)
RejectedIds(contigs, rules) ==
    IF contigs = <<>> THEN <<>>
    ELSE (IF \E j \in 1..Len(rules) : ~RuleHolds(Head(contigs), rules[j])
          THEN <<Head(contigs).contig_id>> ELSE <<>>)
         \o RejectedIds(Tail(contigs), rules)

\* the bases of the contigs that hold every one of the rules
KeptLength(contigs, rules) ==
    SumSeq([i \in 1..Len(contigs) |->
              IF \A j \in 1..Len(rules) : RuleHolds(contigs[i], rules[j])
              THEN contigs[i].length ELSE 0])

\* C19: whatever calls of filter_contigs came before, the rejected ids and
\* the report are those the rule set of the last call gives on the contigs
\* of the file, every contig being reported once; the length main checks
\* and the failure reason it records are those of that filtered set and of
\* the thresholds t_80 and t_150 main computes
C19_OnlyTheLastCallCounts ==
    /\ SpFiltered =>
          LET rules == RulesOf(sp.comparisons)
          IN /\ sp.filtered_ids = RejectedIds(sp.contigs, rules)
             /\ [i \in 1..Len(sp.report) |-> sp.report[i][1]]
                  = [i \in 1..Len(sp.contigs) |-> sp.contigs[i].contig_id]
             /\ \A i \in 1..Len(sp.contigs) :
                  (Lookup(sp.report, sp.contigs[i].contig_id).key = "pass")
                    <=> \A j \in 1..Len(rules) : RuleHolds(sp.contigs[i], rules[j])
    /\ SpSizeChecked =>
          LET len == KeptLength(sp.contigs, RulesOf(sp.comparisons))
          IN /\ sp.assembly_len = len
             /\ pc # "large" =>
                  sp.fails = IF BelowT80(len, sp.gsize10)
                             THEN Fail("Small_genome_size", len)
                             ELSE IF AboveT150(len, sp.gsize10)
                             THEN Fail("Large_genome_size", len)
                             ELSE NoFail

\* a third call, with no rule of the caller, keeps a contig that the rules
\* of the constructor rejected for its length
C19_Witness ==
    /\ prog = "spades_assembly"
    /\ sp.ncalls = 3
    /\ sp.err = "none"
    /\ sp.comparisons = <<>>
    /\ \E i \in 1..Len(sp.contigs) :
         /\ ~InFilteredIds(sp.contigs[i])
         /\ sp.contigs[i].length < sp.min_contig_len

\* main has checked, at 4.1 Mb, a filtered set of 6,150,000 bases, which
\* the float t_150 is below
C19_WitnessEdge ==
    /\ SpSizeChecked /\ pc = "done"
    /\ sp.gsize10 = 41
    /\ sp.assembly_len = 6150000
    /\ sp.fails = [kind |-> "Large_genome_size", len |-> 6150000]

\* main ends after its second filtering, which keeps a contig the first
\* one rejected for its k-mer coverage
C19_WitnessRetry ==
    /\ prog = "process_spades"
    /\ pc = "done"
    /\ sp.ncalls = 2
    /\ sp.status = "pass"
    /\ \E i \in 1..Len(sp.contigs) :
         /\ ~InFilteredIds(sp.contigs[i])
         /\ sp.contigs[i].kmer_cov < sp.min_kmer_cov

(***************************************************************************)
(* Claims on the sliding windows                                           *)
(***************************************************************************)
\* a call of get_gc_sliding has returned
GcSlidingReturned ==
    prog = "assembly_report" /\ ar.sliding_calls = 1 /\ pc = "ready"

\* the contig the absolute position i falls in, the first in file order
ContigAt(i) ==
    CHOOSE k \in 1..Len(ar.contigs) :
        /\ ArStart(k) <= i /\ i < ArStart(k) + StrLen(ar.contigs[k].sequence)
        /\ \A j \in 1..(k - 1) :
              ~(ArStart(j) <= i /\ i < ArStart(j) + StrLen(ar.contigs[j].sequence))

\* C20: whatever calls came before, get_gc_sliding(W) returns a GC value
\* and a label for every window start 0, W, 2W, ... below the length of
\* the assembly, the label naming the first contig that holds the start,
\* and the summary statistics are computed by then
C20_OneLabelPerWindow ==
    GcSlidingReturned =>
        LET W == ar.window
            n == (ArTotal + W - 1) \div W
            complete_seq == Join([k \in 1..Len(ar.contigs) |->
                                    ar.contigs[k].sequence])
        IN /\ Len(ar.gc_sliding.res) = n
           /\ Len(ar.gc_sliding.labels) = n
           /\ \A m \in 1..n :
                LET i == (m - 1) * W
                    seq_window == Slice(complete_seq, i, i + W)
                IN /\ ar.gc_sliding.res[m][1] * StrLen(seq_window)
                        = CountOf(seq_window, {"G", "C", "g", "c"})
                            * ar.gc_sliding.res[m][2]
                   /\ m <= Len(ar.gc_sliding.labels) =>
                        ar.gc_sliding.labels[m]
                          = <<ar.contigs[ContigAt(i)].header, i>>
           /\ ar.summary_info.total_len = ArTotal
           /\ ar.summary_info.ncontigs = Len(ar.contigs)

\* main of assembly_report has written the sliding window data
ArSlidingWritten == ArMainDone /\ ar.has_sliding

\* the per-base depths of the table for the contigs of the assembly, in
\* the order of the assembly file
RECURSIVE DepthInFileOrder(_)
DepthInFileOrder(contigs) ==
    IF contigs = <<>> THEN <<>>
    ELSE LET rows == SelectSeq(ar.coverage_bp_file,
                               LAMBDA r : r.header = Head(contigs).header)
         IN [j \in 1..Len(rows) |-> <<rows[j].coverage, rows[j].n>>]
            \o DepthInFileOrder(Tail(contigs))

\* C21: the coverage track is made from the depths of the contigs in the
\* order of the assembly file, which the labels follow: there are as many
\* coverage values as labels, and the k-th value is the mean depth of the
\* positions the k-th label starts
C21_CoverageFollowsFileOrder ==
    ArSlidingWritten =>
        /\ Len(ar.cov_sliding.res) = Len(ar.cov_sliding.labels)
        /\ ar.cov_sliding.res
             = CovWindows(DepthInFileOrder(ar.contigs), 0, DefaultWindow)

(***************************************************************************)
(* Claims on the reading loop of integrity_coverage.py                     *)
(***************************************************************************)
\* the streams of whole records a file can hold: none or one record
IcStreams ==
    {<<>>} \cup {<<h, s, p, q>> : h \in FastqLines(0), s \in FastqLines(1),
                                  p \in FastqLines(2), q \in FastqLines(3)}

\* the loop of main over the lines of a chain, from the state st on
RECURSIVE IcRun(_, _)
IcRun(st, lines) ==
    IF lines = <<>> \/ st.err # "none" THEN st
    ELSE IcRun(IcLine(st, Head(lines)), Tail(lines))

\* main before the first line is read, with the options of the present run
IcBefore ==
    [ic EXCEPT !.gmin = 99, !.gmax = 0, !.encoding = <<>>, !.phred = <<>>,
               !.chars = 0, !.max_read_length = 0, !.i = 0, !.fidx = 1,
               !.fpos = 0, !.err = "none", !.out = IcNoOutput,
               !.truncated = FALSE, !.eof = FALSE]

\* the fields of a run the loop works on
IcLoopState(st) ==
    [chars |-> st.chars, max_read_length |-> st.max_read_length,
     gmin |-> st.gmin, gmax |-> st.gmax, encoding |-> st.encoding,
     phred |-> st.phred, err |-> st.err, i |-> st.i]

\* what the claim compares of two runs: the exception of a run that
\* raised, the counts, the bounds, the candidates and the files of a run
\* that ended
IcOutcome(st) ==
    IF st.err # "none" THEN [err |-> st.err]
    ELSE [IcLoopState(st) EXCEPT !.i = 0] @@ [out |-> IcReport(st)]

\* the first stream of the present run has been read to its end and was
\* made of whole records
IcFirstStreamRead ==
    /\ prog = "integrity_coverage"
    /\ pc = "read"
    /\ ic.fidx = 2
    /\ ic.fpos = 0
    /\ ~ic.truncated

\* the present run is what the stream A gives
IcIsRunOf(A) == IcLoopState(IcRun(IcBefore, A)) = IcLoopState(ic)

\* the lengths of the lines at index 1 mod 4 of a chain, one by one, and
\* the code points of the characters of its lines at index 3 mod 4
IcSeqLens(lines) ==
    [n \in 1..(Len(lines) \div 4) |-> StrLen(lines[4 * n - 2])]

IcQualOrds(lines) ==
    UNION {{Ord(lines[4 * n][m][1]) : m \in 1..Len(lines[4 * n])}
             : n \in 1..(Len(lines) \div 4)}

\* what C22 compares of two runs: the exception of a run that raised, the
\* character count, the longest read and the coverage files of a run that
\* ended
IcVerdict(st) ==
    IF st.err # "none" THEN [err |-> st.err]
    ELSE LET out == IcReport(st)
         IN [err |-> "none", chars |-> st.chars,
             max_read_length |-> st.max_read_length,
             coverage |-> out.coverage, report |-> out.report,
             max_len |-> out.max_len]

\* the run that guesses the encoding, over the chain of lines
IcGuessingRun(lines) == IcRun([IcBefore EXCEPT !.skip_encoding = FALSE], lines)

\* the chain holds an empty quality line
IcEmptyQuality(lines) == \E n \in 1..(Len(lines) \div 4) : lines[4 * n] = <<>>

\* with the option -e no line changes the bounds or the candidates, and the
\* encoding and phred files hold None
IcNothingGuessed ==
    (prog = "integrity_coverage" /\ ic.skip_encoding) =>
        /\ ic.gmin = 99 /\ ic.gmax = 0
        /\ ic.encoding = <<>> /\ ic.phred = <<>>
        /\ (pc = "done" /\ ~ic.eof) =>
              /\ ic.out.encoding = <<Word("None")>>
              /\ ic.out.phred = <<Word("None")>>

\* C22 as it is stated: with the encoding guess skipped, no quality line
\* changes the bounds or the candidate encodings, the encoding and phred
\* files hold None, and the character count, the longest read and the
\* coverage outcome are those of the run without -e over the same two
\* streams.
C22_SkippingChangesNothingElse ==
    /\ IcNothingGuessed
    /\ (IcFirstStreamRead /\ ic.skip_encoding) =>
          \A B \in IcStreams :
             \A A \in IcStreams :
                IcIsRunOf(A) =>
                   IcVerdict(IcGuessingRun(A \o B)) = IcVerdict(IcRun(ic, B))

\* C22, but for the empty quality line: with the encoding guess skipped, no
\* quality line changes the bounds or the candidate encodings, the encoding
\* and phred files hold None, and the run never raises on a quality line;
\* the run without -e over the same two streams raises ValueError when, and
\* only when, a quality line is empty, and otherwise ends with the same
\* character count, longest read and coverage outcome.
C22_SkippingLeavesCountsAlone ==
    /\ IcNothingGuessed
    /\ (IcFirstStreamRead /\ ic.skip_encoding) =>
          \A B \in IcStreams :
             \A A \in IcStreams :
                IcIsRunOf(A) =>
                   LET s == IcRun(ic, B)
                       g == IcGuessingRun(A \o B)
                   IN /\ s.err = "none"
                      /\ g.err = IF IcEmptyQuality(A \o B) THEN "ValueError"
                                 ELSE "none"
                      /\ g.err = "none" => IcVerdict(g) = IcVerdict(s)

\* a run with -e has read whole records of both files, quality lines
\* included, and has written a passing coverage
C22_Witness ==
    /\ IcDone
    /\ ~ic.eof
    /\ ic.skip_encoding
    /\ ic.i = 8
    /\ ic.chars = 30000000
    /\ ic.gmin = 99
    /\ ic.out.encoding = <<Word("None")>>
    /\ ic.out.coverage = <<Number(1500)>>

\* a run with -e has read the first stream, one record of 15,000,000
\* characters, and the second is to be read
C22_WitnessStream ==
    /\ IcFirstStreamRead
    /\ ic.skip_encoding
    /\ ic.i = 4
    /\ ic.chars = 15000000
    /\ ic.gmin = 99 /\ ic.gmax = 0

Greatest(S) == CHOOSE x \in S : \A y \in S : y <= x

Least(S) == CHOOSE x \in S : \A y \in S : x <= y

\* C23: for two streams of whole records, the run over (A, B) and the run
\* over (B, A) end with the same character count, longest read, quality
\* bounds, candidate encodings and coverage outcome; the lines at index 1
\* mod 4 alone are counted as sequence, those at index 3 mod 4 alone are
\* looked at as quality (the bounds are those of their characters and of
\* the bounds the loop starts with)
C23_StreamOrderDoesNotMatter ==
    IcFirstStreamRead =>
        \A A \in IcStreams :
           IcIsRunOf(A) =>
              \A B \in IcStreams :
                 LET r == IcRun(ic, B)
                 IN /\ IcOutcome(IcRun(IcBefore, B \o A)) = IcOutcome(r)
                    /\ r.err = "none" =>
                          /\ r.chars = SumSeq(IcSeqLens(A \o B))
                          /\ r.max_read_length
                               = Greatest(ToSet(IcSeqLens(A \o B)) \cup {0})
                          /\ ~ic.skip_encoding =>
                                /\ r.gmin = Least(IcQualOrds(A \o B) \cup {99})
                                /\ r.gmax = Greatest(IcQualOrds(A \o B) \cup {0})

\* the first stream, one record with qualities from ! to I, has been read
\* by a run that guesses the encoding, and the second is to be read
C23_Witness ==
    /\ IcFirstStreamRead
    /\ ~ic.skip_encoding
    /\ ic.i = 4
    /\ ic.chars = 250000
    /\ ic.gmin = 33
    /\ ic.gmax = 73

\* C25: after any sequence of quality lines, with the guess not skipped,
\* gmin and gmax are the least and the greatest code point of all the
\* quality characters seen so far, and the candidates are those
\* get_encodings_in_range gives for (gmin, gmax)
C25_BoundsAreMinMaxOfQualities ==
    (IcFirstStreamRead /\ ~ic.skip_encoding) =>
        \A A \in IcStreams :
           IcIsRunOf(A) =>
              \A B \in IcStreams :
                 LET r == IcRun(ic, B)
                 IN (r.err = "none" /\ A \o B # <<>>) =>
                       /\ r.gmin = Least(IcQualOrds(A \o B))
                       /\ r.gmax = Greatest(IcQualOrds(A \o B))
                       /\ r.encoding = get_encodings_in_range(r.gmin, r.gmax).encodings
                       /\ r.phred = get_encodings_in_range(r.gmin, r.gmax).phred

(***************************************************************************)
(* Claims on the Assembly class of process_spades.py                       *)
(***************************************************************************)
\* write_assembly has been called on the object
SpWritten == prog = "spades_assembly" /\ pc = "written"

\* the (header, sequence) pairs of the contigs, in the order of the contigs
SpAllPairs == [k \in 1..Len(sp.contigs) |-> <<sp.contigs[k].header, sp.contigs[k].sequence>>]

\* the pairs of the contigs whose id is not among the filtered ids
SpKeptPairs ==
    LET kept == SelectSeq(sp.contigs, LAMBDA c : ~InSeq(c.contig_id, sp.filtered_ids))
    IN [k \in 1..Len(kept) |-> <<kept[k].header, kept[k].sequence>>]

\* C24: write_assembly writes exactly the contigs that are not in
\* filtered_ids, in the order of the contigs, when filtered is True, and
\* every parsed contig when filtered is False
C24_WriteAssemblyByOption ==
    SpWritten =>
        sp.output_assembly = (IF sp.filtered THEN SpKeptPairs ELSE SpAllPairs)

\* main of process_spades has written its results
SpMainDone == prog = "process_spades" /\ pc = "done" /\ sp.status = "pass"

\* the rules of the two filter runs of main
SpInitialRules ==
    RulesOf(<< Rule("length", ">=", Q(sp.min_contig_len)),
               Rule("kmer_cov", ">=", Q(sp.min_kmer_cov)) >>)

SpRetryRules == RulesOf(<< Rule("length", ">=", Q(sp.min_contig_len)) >>)

\* the contigs that hold every one of the rules
SpKeptBy(rules) ==
    SelectSeq(sp.contigs,
              LAMBDA c : \A j \in 1..Len(rules) : RuleHolds(c, rules[j]))

\* C26: main filters (length, k-mer coverage, GC), checks the size, and
\* filters again without the k-mer coverage rule iff the length after the
\* first filter is below T80; Small_genome_size is recorded iff the length
\* after that retry is still below T80; the oversize check, the contig
\* check, the assembly and the report written are those of the last
\* filter run
C26_ChecksUseTheLastFilterRun ==
    SpMainDone =>
        LET len1 == KeptLength(sp.contigs, SpInitialRules)
            retried == BelowT80(len1, sp.gsize10)
            last == IF retried THEN SpRetryRules ELSE SpInitialRules
            kept == SpKeptBy(last)
        IN /\ (sp.ncalls = 2) <=> retried
           /\ sp.filters = last
           /\ (sp.fails.kind = "Small_genome_size")
                 <=> (retried /\ BelowT80(KeptLength(sp.contigs, SpRetryRules), sp.gsize10))
           /\ InSeq("large", sp.warn_fh)
                 <=> AboveT150(KeptLength(sp.contigs, last), sp.gsize10)
           /\ InSeq("contigs", sp.warn_fh)
                 <=> TooManyContigs(Len(kept), sp.max_contigs, sp.gsize10)
           /\ sp.output_assembly
                 = [k \in 1..Len(kept) |-> <<kept[k].header, kept[k].sequence>>]
           /\ sp.output_report = sp.report
           /\ \A i \in 1..Len(sp.contigs) :
                 (Lookup(sp.output_report, sp.contigs[i].contig_id).key = "pass")
                    <=> \A j \in 1..Len(last) : RuleHolds(sp.contigs[i], last[j])

(***************************************************************************)
(* Claims on the outputs of process_assembly_mapping.py                    *)
(***************************************************************************)
\* main of process_assembly_mapping has written the two outputs
AmWritten ==
    prog = "process_assembly_mapping" /\ pc = "done" /\ am.status = "pass"

\* the contigs of the coverage table with cov >= min_coverage, in the
\* order of the table
AmAtLeastMin ==
    LET rows == SelectSeq(am.coverage_file,
                          LAMBDA r : RatLe(am.min_coverage, <<r.cov, 1>>))
    IN [j \in 1..Len(rows) |-> rows[j].contig]

\* the contigs whose header line is in the FASTA written, in its order
AmFastaContigs ==
    LET h == SelectSeq(am.filtered_assembly, LAMBDA l : l.header)
    IN [j \in 1..Len(h) |-> h[j].name]

\* the bases of the contigs of the coverage table named in names
AmLengthOf(names) ==
    SumSeq([j \in 1..Len(am.coverage_file) |->
              IF InSeq(am.coverage_file[j].contig, names)
              THEN am.coverage_file[j].len ELSE 0])

\* the contigs the assembly file holds a header line of, in its order
AmAssemblyContigs ==
    LET h == SelectSeq(am.assembly_file, LAMBDA l : l.header)
    IN [j \in 1..Len(h) |-> h[j].name]

\* C27 as it is stated: the FASTA and the BAM written describe the same
\* contig set: when check_filtered_assembly passes, the contigs
\* filter_assembly writes, the contigs the BAM filter is given and the
\* contigs whose length was tested are those with cov >= min_coverage; when
\* it fails both outputs are copies of the originals, so no filter is
\* applied that brings the assembly below 80% of the genome size.
C27_FastaAndBamSameContigs ==
    AmWritten =>
        IF am.health
        THEN /\ ToSet(AmFastaContigs) = ToSet(AmAtLeastMin)
             /\ am.filtered_bam.kind = "view"
             /\ ToSet(am.filtered_bam.contig_list) = ToSet(AmAtLeastMin)
             /\ am.assembly_len = AmLengthOf(AmAtLeastMin)
             /\ ~TooSmall(am.assembly_len, am.gsize10)
        ELSE /\ am.filtered_assembly = am.assembly_file
             /\ am.filtered_bam = CopiedBam

\* C27, the FASTA being filtered by its own headers: when
\* check_filtered_assembly passes, the BAM filter is given the contigs of
\* the coverage table with cov >= min_coverage, whose length was tested and
\* is not below the float G * 1000000 * 0.8, and filter_assembly writes the
\* records of the assembly file whose contig is one of them, in the order of
\* the file, so that the FASTA describes the contig set of the BAM iff every
\* such contig has a record in the assembly file (a header the table lacks
\* raises KeyError and nothing is reported as passed); when the check fails
\* both outputs are copies of the originals and the contigs with
\* cov >= min_coverage are below that threshold.
C27_FastaAndBamFromOneTable ==
    AmWritten =>
        IF am.health
        THEN /\ am.filtered_assembly
                   = SelectSeq(am.assembly_file, LAMBDA l : InSeq(l.name, AmAtLeastMin))
             /\ AmFastaContigs
                   = SelectSeq(AmAssemblyContigs, LAMBDA c : InSeq(c, AmAtLeastMin))
             /\ ToSet(AmFastaContigs) = ToSet(AmAtLeastMin)
                   <=> ToSet(AmAtLeastMin) \subseteq ToSet(AmAssemblyContigs)
             /\ \A c \in ToSet(AmAssemblyContigs) :
                   \E k \in 1..Len(am.coverage_file) : am.coverage_file[k].contig = c
             /\ am.filtered_bam.kind = "view"
             /\ am.filtered_bam.contig_list = AmAtLeastMin
             /\ am.assembly_len = AmLengthOf(AmAtLeastMin)
             /\ ~BelowT80(am.assembly_len, am.gsize10)
        ELSE /\ am.filtered_assembly = am.assembly_file
             /\ am.filtered_bam = CopiedBam
             /\ am.assembly_len = AmLengthOf(AmAtLeastMin)
             /\ BelowT80(am.assembly_len, am.gsize10)

\* the check passed with two contigs kept, the second of which the assembly
\* file holds no record of: the BAM filter is given both, the FASTA holds
\* the first
C27_WitnessMissing ==
    /\ AmWritten
    /\ am.health
    /\ AmAssemblyContigs = <<1>>
    /\ AmFastaContigs = <<1>>
    /\ am.filtered_bam.contig_list = <<1, 2>>

\* the check passed and the filter left one of two contigs out of both
\* outputs
C27_Witness ==
    /\ AmWritten
    /\ am.health
    /\ Len(am.coverage_file) = 2
    /\ AmFastaContigs = <<1>>
    /\ am.filtered_bam.contig_list = <<1>>

\* the check failed and the two contigs of the assembly are written,
\* one of them below the minimum coverage
C27_WitnessCopy ==
    /\ AmWritten
    /\ ~am.health
    /\ AmFastaContigs = <<1, 2>>
    /\ Len(AmAtLeastMin) = 1
    /\ am.filtered_bam = CopiedBam

(***************************************************************************)
(* Claims on the contigs and the filters of process_spades.py              *)
(***************************************************************************)
\* the Assembly object has been built from a file that starts with a
\* header line
SpParsed ==
    /\ prog \in {"spades_assembly", "process_spades"}
    /\ pc # "start"
    /\ sp.err = "none"
    /\ ~Headless(sp.assembly_file)

\* the line number of the k-th header line of the file
NthHeaderLine(file, k) ==
    CHOOSE j \in HeaderLines(file) :
        Cardinality({i \in HeaderLines(file) : i < j}) = k - 1

\* C28: _parse_assembly makes one contig per header line of the file, with
\* the ids 0..n-1 in the order of the file, each with its own header, the
\* coverage of that header and its sequence lines joined; no header, one
\* followed by no sequence line included, is dropped or merged
C28_OneContigPerHeaderLine ==
    SpParsed =>
        /\ Len(sp.contigs) = Cardinality(HeaderLines(sp.assembly_file))
        /\ \A k \in 1..Len(sp.contigs) :
             k <= Cardinality(HeaderLines(sp.assembly_file)) =>
                LET j == NthHeaderLine(sp.assembly_file, k)
                IN /\ sp.contigs[k].contig_id = k - 1
                   /\ sp.contigs[k].header = sp.assembly_file[j].name
                   /\ sp.contigs[k].kmer_cov = sp.assembly_file[j].cov
                   /\ sp.contigs[k].sequence = TextFrom(sp.assembly_file, j + 1)

\* the report entry of the contig c says pass
SpReportedPass(c) ==
    HasKey(sp.report, c.contig_id) /\ Lookup(sp.report, c.contig_id).key = "pass"

\* C29: after any sequence of filter_contigs calls the contigs are those
\* parsed from the file, the report holds one entry for every contig,
\* filtered_ids holds no id twice, an id is in filtered_ids iff its report
\* entry is not pass, and get_assembly_length is the sum of the lengths of
\* the contigs reported as pass
C29_FilterStateIsConsistent ==
    SpFiltered =>
        /\ sp.contigs = parse_assembly(sp.assembly_file).contigs
        /\ Len(sp.report) = Len(sp.contigs)
        /\ \A i \in 1..Len(sp.contigs) :
             Cardinality({j \in 1..Len(sp.report) :
                            sp.report[j][1] = sp.contigs[i].contig_id}) = 1
        /\ \A i, j \in 1..Len(sp.filtered_ids) :
             sp.filtered_ids[i] = sp.filtered_ids[j] => i = j
        /\ \A i \in 1..Len(sp.contigs) :
             InSeq(sp.contigs[i].contig_id, sp.filtered_ids)
                <=> ~SpReportedPass(sp.contigs[i])
        /\ \A i \in 1..Len(sp.filtered_ids) :
             \E k \in 1..Len(sp.contigs) :
                sp.contigs[k].contig_id = sp.filtered_ids[i]
        /\ get_assembly_length(sp.contigs, sp.filtered_ids)
             = SumSeq([i \in 1..Len(sp.contigs) |->
                         IF SpReportedPass(sp.contigs[i])
                         THEN sp.contigs[i].length ELSE 0])

\* a third call has left one of two contigs rejected and the other as pass
C29_Witness ==
    /\ prog = "spades_assembly"
    /\ sp.err = "none"
    /\ sp.ncalls = 3
    /\ Len(sp.contigs) = 2
    /\ sp.filtered_ids = <<1>>
    /\ SpReportedPass(sp.contigs[1])
    /\ get_assembly_length(sp.contigs, sp.filtered_ids) = sp.contigs[1].length

\* a call of filter_contigs on an object filtered before, with rules that
\* are among the rules of the call before
SpReducedRulesStep ==
    /\ prog \in {"spades_assembly", "process_spades"}
    /\ sp.ncalls >= 1
    /\ sp'.ncalls = sp.ncalls + 1
    /\ sp.err = "none"
    /\ sp'.err = "none"
    /\ ToSet(sp'.comparisons) \subseteq ToSet(sp.comparisons)

\* C30: taking rules away never rejects more contigs: every contig kept
\* under the rules of one call is kept by a next call whose rules are
\* among them, so the length main finds after its retry without the k-mer
\* coverage rule is at least the length after the first filter
C30_FewerRulesKeepMore ==
    [][SpReducedRulesStep =>
         /\ \A i \in 1..Len(sp'.filtered_ids) :
              InSeq(sp'.filtered_ids[i], sp.filtered_ids)
         /\ get_assembly_length(sp'.contigs, sp'.filtered_ids)
              >= get_assembly_length(sp.contigs, sp.filtered_ids)
         /\ prog = "process_spades" =>
              sp'.assembly_len >= KeptLength(sp.contigs, SpInitialRules)
    ]_vars

\* a call with the length rule alone, after a call with the length and
\* k-mer coverage rules, has kept a contig the call before rejected
C30_Witness ==
    /\ prog = "spades_assembly"
    /\ sp.err = "none"
    /\ sp.ncalls = 2
    /\ sp.comparisons = << Rule("length", ">=", Q(21)) >>
    /\ \E i \in 1..Len(sp.contigs) :
         /\ sp.contigs[i].kmer_cov < 2
         /\ sp.contigs[i].length >= 21
         /\ ~InFilteredIds(sp.contigs[i])
    /\ sp.filtered_ids # <<>>

\* main has filtered again without the k-mer coverage rule and found a
\* greater length
C30_WitnessRetry ==
    /\ SpMainDone
    /\ sp.ncalls = 2
    /\ sp.assembly_len > KeptLength(sp.contigs, SpInitialRules)

=============================================================================
